---- MODULE Spec2Model ----
(***************************************************************************)
(* Layout and packing engine of the styleboard canvas: placement          *)
(* strategies over the gutter-inflated occupancy index, the BSP tiler and *)
(* the moodboard layout built on it, the shared-edge shift solver and the *)
(* gap closers (stretch to canvas edges, collect to the tight bbox).      *)
(* All numbers are grid cells.  Ratios are kept exact as integer          *)
(* cross-products; the source computes them in double precision, which    *)
(* agrees with the exact value on the small integers used here.           *)
(***************************************************************************)
EXTENDS Integers, Sequences, FiniteSets, TLC

VARIABLES
  W, H,        \* canvas size in cells
  items,       \* the committed item list (ordered)
  op,          \* the last operation invoked on the core and its arguments
  applied,     \* computeEdgeShift: the delta actually applied by the last call
  \* stretchToCanvasEdges / collectCompute (one call in progress)
  gpc,         \* "idle" | "stage" (about to sort a stage) | "grow" | "done"
  arr,         \* the working clone being grown
  target,      \* target bounds [minX, minY, maxX, maxY]
  order,       \* collectCompute: indices sorted once by gx*100000+gy
  changed,     \* loop flag of the current pass
  iter,        \* growth steps done
  maxIters,    \* growth budget
  dirIx,       \* position in the stage list
  idxs,        \* item order of the current stage
  ip,          \* position in idxs
  \* reflowMoodboard -> layoutMoodboard -> bspTile (one call in progress)
  intensity,   \* moodShuffleIntensity, 0..100
  lpc,         \* "idle" | "layout" | "begin" | "main" | "extra" | "ret" | "laid"
  fullFill,    \* opts.fullFill of the layoutMoodboard call in progress
  work,        \* layoutMoodboard.items: the filtered (and maybe shuffled) clone
  attempt,     \* attempt index handed to bspTile
  regions,     \* bspTile.regions
  guard,       \* bspTile.guard
  debt,        \* bspTile.debt
  leaves,      \* value returned by the last bspTile call
  out,         \* value returned by the last layoutMoodboard call
  trace,       \* random draws behind the result of the call in progress
  prevTrace,   \* random draws behind the result of the previous call
  prevItems,   \* the list the last reflow was invoked on
  nRuns,       \* completed reflow calls
  runsLeft,    \* reflow calls still to be made in this behaviour
  cpc,         \* layoutMoodboardCombo: "idle" | "call" | "loop" | "bands"
  blocks,      \* layoutMoodboardCombo.blocks
  parts,       \* layoutMoodboardCombo.parts, in 1/400 of the canvas
  counts,      \* layoutMoodboardCombo.counts
  diff,        \* layoutMoodboardCombo.diff
  ci,          \* index i of the for loop inside the correction loop, from 1
  board,       \* AppInner.board
  remoteReady, \* remoteReadyRef.current
  pass,        \* passRef.current is set
  local,       \* localStorage "styleboard:<key>", per board
  remote,      \* the server's item list, per board
  saveTimer,   \* remote.ts saveTimer: the pending save, or NoTimer
  loads,       \* remoteLoad calls in flight
  posted,      \* save requests sent so far
  nSwitch      \* board switches made

edgeVars == <<applied>>
growVars == <<gpc, arr, target, order, changed, iter, maxIters, dirIx, idxs, ip>>
layVars  == <<intensity, lpc, fullFill, work, attempt, regions, guard, debt, leaves,
              out, trace, prevTrace, prevItems, nRuns, runsLeft>>
comboVars == <<cpc, blocks, parts, counts, diff, ci>>
netVars == <<board, remoteReady, pass, local, remote, saveTimer, loads, posted,
             nSwitch>>
vars == <<W, H, items, op, applied, gpc, arr, target, order, changed, iter,
          maxIters, dirIx, idxs, ip, intensity, lpc, fullFill, work, attempt,
          regions, guard, debt, leaves, out, trace, prevTrace, prevItems, nRuns,
          runsLeft, cpc, blocks, parts, counts, diff, ci, board, remoteReady,
          pass, local, remote, saveTimer, loads, posted, nSwitch>>

----------------------------------------------------------------------------
(* Bounds of the model *)

MaxEdgeItems == 2   \* longest item list of the generic edge-shift inputs
MaxGrowItems == 2   \* longest item list of the generic stretch/collect inputs
MaxPlaced == 3      \* items placed on one canvas
MaxSize == 3        \* site sizes gw, gh range over 1..MaxSize
MaxGuard == 8       \* stands for the tiler's iteration guard
MaxRuns == 2        \* consecutive reflow calls in one behaviour of SpecRelayout
MaxSwitches == 2    \* board switches in one behaviour of SpecNet

----------------------------------------------------------------------------
(* Program constants and small utilities *)

GUTTER == 1

Max2(a, b) == IF a >= b THEN a ELSE b
Min2(a, b) == IF a <= b THEN a ELSE b

clamp(v, lo, hi) == Max2(lo, Min2(hi, v))

SetMax(S) == CHOOSE x \in S : \A y \in S : y <= x
SetMin(S) == CHOOSE x \in S : \A y \in S : x <= y

Ids == <<"a", "b", "c", "d">>

Item(id, kind, gx, gy, gw, gh) ==
  [id |-> id, kind |-> kind, gx |-> gx, gy |-> gy, gw |-> gw, gh |-> gh,
   natW |-> 0, natH |-> 0]

Dirs == {"left", "right", "up", "down"}

NoOp == [name |-> "none"]

\* every item has positive size and lies within [0,W] x [0,H]
Settled(its, w, h) ==
  \A i \in 1..Len(its) :
    /\ its[i].gw >= 1 /\ its[i].gh >= 1
    /\ its[i].gx >= 0 /\ its[i].gy >= 0
    /\ its[i].gx + its[i].gw <= w
    /\ its[i].gy + its[i].gh <= h

\* all rectangles with positive size inside a w x h canvas
RectsIn(w, h) ==
  { r \in [gx : 0..(w-1), gy : 0..(h-1), gw : 1..w, gh : 1..h] :
      r.gx + r.gw <= w /\ r.gy + r.gh <= h }

\* item lists of length n over the rectangles of a w x h canvas, ids by position
ItemLists(n, w, h) ==
  { [i \in 1..n |-> Item(Ids[i], "image", rs[i].gx, rs[i].gy, rs[i].gw, rs[i].gh)] :
      rs \in [1..n -> RectsIn(w, h)] }

\* no layout call in progress or made
LayFresh ==
  /\ lpc = "idle" /\ fullFill = FALSE /\ work = <<>> /\ attempt = 0
  /\ regions = <<>> /\ guard = 0 /\ debt = 0 /\ leaves = <<>> /\ out = <<>>
  /\ trace = <<>> /\ prevTrace = <<>> /\ prevItems = <<>> /\ nRuns = 0

LayIdle == LayFresh /\ runsLeft = 0

\* no stretch/collect call in progress
GrowIdle ==
  /\ gpc = "idle" /\ arr = <<>> /\ order = <<>> /\ idxs = <<>>
  /\ target = [minX |-> 0, minY |-> 0, maxX |-> 0, maxY |-> 0]
  /\ changed = FALSE /\ iter = 0 /\ maxIters = 0 /\ dirIx = 0 /\ ip = 0

\* no layoutMoodboardCombo call in progress
ComboIdle ==
  /\ cpc = "idle" /\ blocks = 0 /\ parts = <<>> /\ counts = <<>>
  /\ diff = 0 /\ ci = 0

BOARD_KEYS == {"moodboard", "styleboard"}

NoTimer == [board |-> "none", items |-> <<>>]

\* no load or save in progress, made or possible
NetOff ==
  /\ remoteReady = FALSE /\ pass = FALSE
  /\ local = [b \in BOARD_KEYS |-> <<>>] /\ remote = [b \in BOARD_KEYS |-> <<>>]
  /\ saveTimer = NoTimer /\ loads = {} /\ posted = {} /\ nSwitch = 0

NetIdle == board = "moodboard" /\ NetOff

----------------------------------------------------------------------------
(* Occupancy index: bitmap + 2D prefix sums *)

\* variant: boxes inflated by two gutters, the distance canPlaceRect asks for
OccGridTwoGutters(its, w, h) ==
  UNION { { <<x, y>> : x \in Max2(0, its[i].gx - 2 * GUTTER)..Min2(w - 1, its[i].gx + its[i].gw + 2 * GUTTER - 1),
                       y \in Max2(0, its[i].gy - 2 * GUTTER)..Min2(h - 1, its[i].gy + its[i].gh + 2 * GUTTER - 1) }
          : i \in 1..Len(its) }

\* Uint8Array.fill(1, start, end) on an array of len cells: the indices it
\* writes; a negative start or end counts from the end of the array
fillRange(len, start, end) ==
  LET from == IF start < 0 THEN Max2(len + start, 0) ELSE Min2(start, len)
      to   == IF end < 0 THEN Max2(len + end, 0) ELSE Min2(end, len)
  IN  from..(to - 1)

\* buildOccPS(...).grid, as the set of marked cells <<x, y>>: for every item
\* the rows minY..maxY of its box inflated by GUTTER and clipped to the canvas,
\* each filled from y*W + minX up to y*W + maxX + 1
OccGrid(its, w, h) ==
  UNION { LET minX == Max2(0, its[i].gx - GUTTER)
              maxX == Min2(w - 1, its[i].gx + its[i].gw + GUTTER - 1)
              minY == Max2(0, its[i].gy - GUTTER)
              maxY == Min2(h - 1, its[i].gy + its[i].gh + GUTTER - 1)
          IN  UNION { { <<k % w, k \div w>> :
                          k \in fillRange(w * h, y * w + minX, y * w + maxX + 1) }
                      : y \in minY..maxY }
          : i \in 1..Len(its) }

\* buildOccPS(...).ps[y*(W+1)+x]: number of marked cells in [0,x) x [0,y)
PS(grid, x, y) == Cardinality({ c \in grid : c[1] < x /\ c[2] < y })

\* rectHasOcc: inclusion-exclusion over the prefix sums, corners inclusive
rectHasOcc(grid, x1, y1, x2, y2) ==
  LET A == PS(grid, x1, y1)
      B == PS(grid, x2 + 1, y1)
      C == PS(grid, x1, y2 + 1)
      D == PS(grid, x2 + 1, y2 + 1)
  IN (D - B - C + A) > 0

canPlacePSBoundsOnly(gx, gy, gw, gh, grid, w, h) ==
  IF gx < 0 \/ gy < 0 THEN FALSE
  ELSE IF gx + gw > w \/ gy + gh > h THEN FALSE
  ELSE TRUE

canPlacePS(gx, gy, gw, gh, grid, w, h) ==
  IF gx < 0 \/ gy < 0 THEN FALSE
  ELSE IF gx + gw > w \/ gy + gh > h THEN FALSE
  ELSE ~rectHasOcc(grid, gx, gy, gx + gw - 1, gy + gh - 1)

\* the candidate is not inflated, the neighbours are
canPlaceWithStdGutter(gx, gy, gw, gh, others, w, h) ==
  canPlacePS(gx, gy, gw, gh, OccGrid(others, w, h), w, h)

getBBoxTight(its) ==
  [minX |-> SetMin({ its[i].gx : i \in 1..Len(its) }),
   minY |-> SetMin({ its[i].gy : i \in 1..Len(its) }),
   maxX |-> SetMax({ its[i].gx + its[i].gw - 1 : i \in 1..Len(its) }),
   maxY |-> SetMax({ its[i].gy + its[i].gh - 1 : i \in 1..Len(its) })]

----------------------------------------------------------------------------
(* PlacementStrategies *)

\* a placement result: an origin, or null ("no space")
Pos(x, y) == [ok |-> TRUE, gx |-> x, gy |-> y]
NoSpace == [ok |-> FALSE, gx |-> 0, gy |-> 0]

\* first element of a sequence of <<x, y>> origins that satisfies P, else null
FirstPlace(sq, P(_, _)) ==
  IF \E k \in 1..Len(sq) : P(sq[k][1], sq[k][2])
    THEN LET k == CHOOSE k \in 1..Len(sq) :
                    /\ P(sq[k][1], sq[k][2])
                    /\ \A m \in 1..(k-1) : ~P(sq[m][1], sq[m][2])
         IN Pos(sq[k][1], sq[k][2])
    ELSE NoSpace

RECURSIVE Concat(_)
Concat(sqs) == IF sqs = <<>> THEN <<>> ELSE Head(sqs) \o Concat(Tail(sqs))

\* canvas-centre origin for a gw x gh rectangle; no bounds or occupancy test
\* spawnFor centring by the free room, floor((W - gw) / 2)
spawnForByRoom(gw, gh, w, h) == Pos((w - gw) \div 2, (h - gh) \div 2)

spawnFor(gw, gh, w, h) == Pos((w \div 2) - (gw \div 2), (h \div 2) - (gh \div 2))

\* canPlaceRect: bounds, then box intersection with BOTH boxes inflated by GUTTER
canPlaceRect(gx, gy, gw, gh, its, w, h) ==
  IF gx < 0 \/ gy < 0 THEN FALSE
  ELSE IF gx + gw > w \/ gy + gh > h THEN FALSE
  ELSE
    LET mx1 == gx - GUTTER
        my1 == gy - GUTTER
        mx2 == gx + gw + GUTTER - 1
        my2 == gy + gh + GUTTER - 1
    IN \A i \in 1..Len(its) :
         LET ox1 == its[i].gx - GUTTER
             oy1 == its[i].gy - GUTTER
             ox2 == its[i].gx + its[i].gw + GUTTER - 1
             oy2 == its[i].gy + its[i].gh + GUTTER - 1
         IN (mx2 < ox1 \/ ox2 < mx1 \/ my2 < oy1 \/ oy2 < my1)

\* getBBox: bounding box of the gutter-inflated items (not clipped)
getBBox(its) ==
  [minX |-> SetMin({ its[i].gx - GUTTER : i \in 1..Len(its) }),
   minY |-> SetMin({ its[i].gy - GUTTER : i \in 1..Len(its) }),
   maxX |-> SetMax({ its[i].gx + its[i].gw + GUTTER - 1 : i \in 1..Len(its) }),
   maxY |-> SetMax({ its[i].gy + its[i].gh + GUTTER - 1 : i \in 1..Len(its) })]

\* centerOut1D: anchor, anchor+1, anchor-1, anchor+2, ... restricted to [lo, hi]
RECURSIVE centerOutFrom(_, _, _, _)
centerOutFrom(anchor, lo, hi, step) ==
  LET a == anchor + step
      b == anchor - step
      here == (IF a >= lo /\ a <= hi THEN << a >> ELSE << >>)
              \o (IF step # 0 /\ b >= lo /\ b <= hi THEN << b >> ELSE << >>)
  IN IF anchor - (step + 1) < lo /\ anchor + (step + 1) > hi
       THEN here
       ELSE here \o centerOutFrom(anchor, lo, hi, step + 1)

centerOut1D(anchor, lo, hi) == centerOutFrom(anchor, lo, hi, 0)

\* edgeTouchSum: cells just outside the four sides that are marked in the grid
edgeTouchSum(gx, gy, gw, gh, grid) ==
    Cardinality({ x \in gx..(gx + gw - 1) : <<x, gy - 1>> \in grid })
  + Cardinality({ x \in gx..(gx + gw - 1) : <<x, gy + gh>> \in grid })
  + Cardinality({ y \in gy..(gy + gh - 1) : <<gx - 1, y>> \in grid })
  + Cardinality({ y \in gy..(gy + gh - 1) : <<gx + gw, y>> \in grid })

\* spiralFrom: the cells visited after the start, legs R, D (run), L, U (run+1)
RECURSIVE SpiralPath(_, _, _, _)
SpiralPath(x, y, run, maxRun) ==
  IF run >= maxRun THEN << >>
  ELSE
    LET x1 == x + run
        y1 == y + run
        r2 == run + 1
        x2 == x1 - r2
        y2 == y1 - r2
    IN   [i \in 1..run |-> <<x + i, y>>]
      \o [i \in 1..run |-> <<x1, y + i>>]
      \o [i \in 1..r2  |-> <<x1 - i, y1>>]
      \o [i \in 1..r2  |-> <<x2, y1 - i>>]
      \o SpiralPath(x2, y2, r2 + 1, maxRun)

SpiralMaxRun == 30000

\* findPlacementGeneric: spiral from the spawn point under canPlaceRect.  Every
\* cell accepted lies in the canvas, so legs longer than 2*max(W,H)+2 add nothing.
findPlacementGeneric(its, gw, gh, w, h) ==
  LET o == spawnFor(gw, gh, w, h)
      runs == Min2(SpiralMaxRun, 2 * Max2(w, h) + 2)
      ok(x, y) == canPlaceRect(x, y, gw, gh, its, w, h)
  IN FirstPlace(<< <<o.gx, o.gy>> >> \o SpiralPath(o.gx, o.gy, 1, runs), ok)

\* findPlacementRDLUDense: rings around the last item, sides in the order R, D, L, U
findPlacementRDLUDense(its, gw, gh, w, h) ==
  IF its = << >> THEN spawnFor(gw, gh, w, h)
  ELSE
    LET grid   == OccGrid(its, w, h)
        XMAX   == w - gw
        YMAX   == h - gh
        anchor == its[Len(its)]
        baseR  == anchor.gx + anchor.gw + GUTTER
        baseL  == anchor.gx - gw - GUTTER
        baseD  == anchor.gy + anchor.gh + GUTTER
        baseU  == anchor.gy - gh - GUTTER
        tryFast(x, y) == x >= 0 /\ y >= 0 /\ x <= XMAX /\ y <= YMAX
                         /\ canPlacePS(x, y, gw, gh, grid, w, h)
        RMAX   == SetMax({ Max2(0, XMAX - baseR), Max2(0, baseL),
                           Max2(0, YMAX - baseD), Max2(0, baseU) })
        col(x, r) == IF x >= 0 /\ x <= XMAX
                       THEN [k \in 1..(2*r + 1) |-> <<x, anchor.gy - r + k - 1>>]
                       ELSE << >>
        row(y, r) == IF y >= 0 /\ y <= YMAX
                       THEN [k \in 1..(2*r + 1) |-> <<anchor.gx - r + k - 1, y>>]
                       ELSE << >>
        ring(r) == col(baseR + r, r) \o row(baseD + r, r)
                   \o col(baseL - r, r) \o row(baseU - r, r)
    IN FirstPlace(Concat([r1 \in 1..(RMAX + 1) |-> ring(r1 - 1)]), tryFast)

SnakeMargin == 2

\* findPlacementSnakePacked
findPlacementSnakePacked(its, gw, gh, w, h) ==
  IF its = << >> THEN spawnFor(gw, gh, w, h)
  ELSE
    LET grid   == OccGrid(its, w, h)
        anchor == its[Len(its)]
        bb     == getBBox(its)
        XMIN   == clamp(bb.minX - gw - SnakeMargin, 0, w - gw)
        XMAX   == clamp(bb.maxX + SnakeMargin,      0, w - gw)
        YMIN   == clamp(bb.minY - gh - SnakeMargin, 0, h - gh)
        YMAX   == clamp(bb.maxY + SnakeMargin,      0, h - gh)
        xs     == centerOut1D(anchor.gx, XMIN, XMAX)
        ys     == centerOut1D(anchor.gy, YMIN, YMAX)
        cands  == Concat([i \in 1..Len(xs) |-> [j \in 1..Len(ys) |-> <<xs[i], ys[j]>>]])
        ok2(x, y) == canPlacePS(x, y, gw, gh, grid, w, h)
                     /\ edgeTouchSum(x, y, gw, gh, grid) >= 2
        ok1(x, y) == canPlacePS(x, y, gw, gh, grid, w, h)
                     /\ edgeTouchSum(x, y, gw, gh, grid) >= 1
        ok0(x, y) == canPlacePS(x, y, gw, gh, grid, w, h)
        p2 == FirstPlace(cands, ok2)
        p1 == FirstPlace(cands, ok1)
        p0 == FirstPlace(cands, ok0)
        dense == findPlacementRDLUDense(its, gw, gh, w, h)
    IN IF p2.ok THEN p2
       ELSE IF p1.ok THEN p1
       ELSE IF p0.ok THEN p0
       ELSE IF dense.ok THEN dense
       ELSE findPlacementGeneric(its, gw, gh, w, h)

Abs(n) == IF n < 0 THEN -n ELSE n

\* buildFrontierFromItems, in insertion order (repeats kept: only the first
\* occurrence of a key matters to a Set).  Every item of a reachable list has
\* its inflated box meeting the canvas columns, so no index leaves its row.
frontierOf(it, grid, w, h) ==
  LET minX == Max2(0, it.gx - GUTTER)
      maxX == Min2(w - 1, it.gx + it.gw + GUTTER - 1)
      minY == Max2(0, it.gy - GUTTER)
      maxY == Min2(h - 1, it.gy + it.gh + GUTTER - 1)
      yTop == minY - 1
      yBot == maxY + 1
      xLeft == minX - 1
      xRight == maxX + 1
      free(c) == c \notin grid /\ c[1] >= 0 /\ c[1] < w /\ c[2] >= 0 /\ c[2] < h
      hrow(y) == SelectSeq([k \in 1..Max2(0, maxX - minX + 1) |-> <<minX + k - 1, y>>], free)
      vcol(x) == SelectSeq([k \in 1..Max2(0, maxY - minY + 1) |-> <<x, minY + k - 1>>], free)
  IN    (IF yTop >= 0  THEN hrow(yTop)   ELSE << >>)
     \o (IF yBot < h   THEN hrow(yBot)   ELSE << >>)
     \o (IF xLeft >= 0 THEN vcol(xLeft)  ELSE << >>)
     \o (IF xRight < w THEN vcol(xRight) ELSE << >>)

buildFrontierFromItems(its, grid, w, h) ==
  Concat([i \in 1..Len(its) |-> frontierOf(its[i], grid, w, h)])

\* sideIndexRDLU on doubled centre coordinates: 0 R, 1 D, 2 L, 3 U
sideIndexRDLU(anchor, gx, gy, gw, gh) ==
  LET dx == (2*gx + gw) - (2*anchor.gx + anchor.gw)
      dy == (2*gy + gh) - (2*anchor.gy + anchor.gh)
  IN IF Abs(dx) >= Abs(dy) THEN (IF dx >= 0 THEN 0 ELSE 2)
     ELSE (IF dy >= 0 THEN 1 ELSE 3)

\* edgeTouchScore, doubled so that the half-cell centre distances stay integral
edgeTouchScore2(gx, gy, gw, gh, grid, anchor) ==
  LET top    == Cardinality({ x \in gx..(gx + gw - 1) : <<x, gy - 1>> \in grid })
      bottom == Cardinality({ x \in gx..(gx + gw - 1) : <<x, gy + gh>> \in grid })
      left   == Cardinality({ y \in gy..(gy + gh - 1) : <<gx - 1, y>> \in grid })
      right  == Cardinality({ y \in gy..(gy + gh - 1) : <<gx + gw, y>> \in grid })
      sum    == top + bottom + left + right
      cornerBonus ==
        IF \/ (right > 0 /\ top > 0) \/ (right > 0 /\ bottom > 0)
           \/ (left > 0 /\ top > 0)  \/ (left > 0 /\ bottom > 0)
          THEN 1000 ELSE 0
      dist2  == Abs((2*gx + gw) - (2*anchor.gx + anchor.gw))
                + Abs((2*gy + gh) - (2*anchor.gy + anchor.gh))
      sideIdx == sideIndexRDLU(anchor, gx, gy, gw, gh)
  IN 2 * (sum * 100000 + cornerBonus) - dist2 * 10 - 2 * sideIdx

\* the flush origins generated from one frontier cell, in insertion order
packedCandidatesAt(f, gw, gh, grid) ==
  LET fx == f[1]
      fy == f[2]
      leftOcc  == <<fx - 1, fy>> \in grid
      rightOcc == <<fx + 1, fy>> \in grid
      upOcc    == <<fx, fy - 1>> \in grid
      downOcc  == <<fx, fy + 1>> \in grid
  IN    (IF leftOcc  THEN [k \in 1..gh |-> <<fx, fy - (k - 1)>>] ELSE << >>)
     \o (IF rightOcc THEN [k \in 1..gh |-> <<fx - gw + 1, fy - (k - 1)>>] ELSE << >>)
     \o (IF upOcc    THEN [k \in 1..gw |-> <<fx - (k - 1), fy>>] ELSE << >>)
     \o (IF downOcc  THEN [k \in 1..gw |-> <<fx - (k - 1), fy - gh + 1>>] ELSE << >>)

\* findPlacementPacked: best-scoring feasible flush origin, first inserted wins ties
findPlacementPacked(its, gw, gh, w, h) ==
  IF its = << >> THEN spawnFor(gw, gh, w, h)
  ELSE
    LET grid     == OccGrid(its, w, h)
        frontier == buildFrontierFromItems(its, grid, w, h)
        anchor   == its[Len(its)]
        cands    == Concat([k \in 1..Len(frontier) |->
                              packedCandidatesAt(frontier[k], gw, gh, grid)])
        feas(k)  == canPlacePS(cands[k][1], cands[k][2], gw, gh, grid, w, h)
        score(k) == edgeTouchScore2(cands[k][1], cands[k][2], gw, gh, grid, anchor)
        dense    == findPlacementRDLUDense(its, gw, gh, w, h)
    IN IF \E k \in 1..Len(cands) : feas(k)
         THEN LET b == CHOOSE k \in 1..Len(cands) :
                         /\ feas(k)
                         /\ \A m \in 1..Len(cands) :
                              feas(m) => \/ score(m) < score(k)
                                         \/ (score(m) = score(k) /\ m >= k)
              IN Pos(cands[b][1], cands[b][2])
       ELSE IF dense.ok THEN dense
       ELSE findPlacementGeneric(its, gw, gh, w, h)

\* canvases of the placement runs
PlaceCanvases == { [W |-> 2, H |-> 3], [W |-> 6, H |-> 5], [W |-> 10, H |-> 10] }

PlaceSizes == 1..MaxSize

\* candidate shapes <<gw, gh>> of the placement runs
PlaceShapes == { <<1, 1>>, <<1, 2>>, <<2, 2>>, <<3, 1>>, <<2, 3>>, <<3, 3>> }

InitPlace ==
  /\ \E c \in PlaceCanvases : W = c.W /\ H = c.H
  /\ items = << >>
  /\ op = NoOp
  /\ applied = 0
  /\ GrowIdle
  /\ ComboIdle
  /\ NetIdle
  /\ intensity = 0 /\ LayIdle

\* the add path: ask a strategy for an origin; append the item there, or
\* reject the insertion when the strategy answers null
Place(strategy, pos, gw, gh) ==
  /\ Len(items) < MaxPlaced
  /\ items' = IF pos.ok
                THEN Append(items, Item(Ids[Len(items) + 1], "image", pos.gx, pos.gy, gw, gh))
                ELSE items
  /\ op' = [name |-> "place", strategy |-> strategy, gw |-> gw, gh |-> gh, ok |-> pos.ok]
  /\ UNCHANGED <<W, H, applied>>
  /\ UNCHANGED growVars
  /\ UNCHANGED comboVars
  /\ UNCHANGED netVars
  /\ UNCHANGED layVars

AddSnake ==
  \E sh \in PlaceShapes :
    Place("snake", findPlacementSnakePacked(items, sh[1], sh[2], W, H), sh[1], sh[2])

AddPacked ==
  \E sh \in PlaceShapes :
    Place("packed", findPlacementPacked(items, sh[1], sh[2], W, H), sh[1], sh[2])

AddDense ==
  \E sh \in PlaceShapes :
    Place("dense", findPlacementRDLUDense(items, sh[1], sh[2], W, H), sh[1], sh[2])

NextPlace == AddSnake \/ AddPacked \/ AddDense

SpecPlace == InitPlace /\ [][NextPlace]_vars

\* two items keep at least one empty cell between them on some axis
GutterApart(a, b) ==
  \/ a.gx + a.gw + GUTTER <= b.gx \/ b.gx + b.gw + GUTTER <= a.gx
  \/ a.gy + a.gh + GUTTER <= b.gy \/ b.gy + b.gh + GUTTER <= a.gy

\* C1: every list built from the empty canvas by adding the rectangles the
\* snake, packed or radial-dense strategy returns has all items inside the
\* canvas and pairwise separated by the 1-cell gutter.
C1_PlacedInBoundsAndApart ==
  /\ Settled(items, W, H)
  /\ \A i, j \in 1..Len(items) : i # j => GutterApart(items[i], items[j])

\* C11: with no existing items the packed, snake and radial-dense strategies
\* return the spawn origin (floor(W/2) - floor(gw/2), floor(H/2) - floor(gh/2));
\* a 2x2 candidate on a 10x10 canvas lands at (4,4).  The first item of the
\* list is the one placed on the empty canvas.
C11_EmptyCanvasSpawn ==
  Len(items) >= 1 =>
    /\ items[1].gx = (W \div 2) - (items[1].gw \div 2)
    /\ items[1].gy = (H \div 2) - (items[1].gh \div 2)
    /\ (W = 10 /\ H = 10 /\ items[1].gw = 2 /\ items[1].gh = 2)
         => (items[1].gx = 4 /\ items[1].gy = 4)

\* the packed strategy has just put a 2x2 item on the empty 10x10 canvas
C11_Witness ==
  /\ W = 10 /\ H = 10 /\ Len(items) = 1
  /\ op.name = "place" /\ op.strategy = "packed" /\ op.ok
  /\ items[1].gw = 2 /\ items[1].gh = 2 /\ items[1].gx = 4 /\ items[1].gy = 4

\* an in-bounds origin where a gw x gh rectangle keeps at least one empty cell
\* from every item of its
FreeSpotExists(its, gw, gh, w, h) ==
  \E x \in 0..(w - gw), y \in 0..(h - gh) :
    \A i \in 1..Len(its) :
      GutterApart([gx |-> x, gy |-> y, gw |-> gw, gh |-> gh], its[i])

\* the last placement was refused by the named strategy
Refused(strategy) ==
  op.name = "place" /\ op.strategy = strategy /\ ~op.ok

\* C17 as stated: packed and snake answer "no space" only when no in-bounds
\* origin keeps the candidate one empty cell away from every existing item.
C17_NoSpaceOnlyWhenExhausted ==
  (Refused("packed") \/ Refused("snake"))
  => ~FreeSpotExists(items, op.gw, op.gh, W, H)

\* packed refused a candidate on a canvas that already holds two items
C17_Witness ==
  /\ Refused("packed") /\ Len(items) >= 2
  /\ W = 6 /\ H = 5
  /\ op.gw <= W /\ op.gh <= H

\* snake refused a candidate that fits the bare canvas
C17_WitnessSnake ==
  /\ Refused("snake") /\ Len(items) >= 1
  /\ op.gw <= W /\ op.gh <= H

----------------------------------------------------------------------------
(* Strict radial placement of sites around the first site *)

\* xR of ring 0 with a single gutter
siteBaseRightOneGutter(anchor) == anchor.gx + anchor.gw + GUTTER

\* xR of ring 0: the anchor's right edge plus 2*GUTTER
siteBaseRight(anchor) == anchor.gx + anchor.gw + 2 * GUTTER

\* findPlacementSiteRDLUStrict: rings of anchor-sized steps, sides in the order
\* R, D, L, U, each side followed by one corner
findPlacementSiteRDLUStrict(its, gw, gh, w, h) ==
  IF ~ \E i \in 1..Len(its) : its[i].kind = "site" THEN spawnFor(gw, gh, w, h)
  ELSE
    LET anchor == its[CHOOSE i \in 1..Len(its) :
                        /\ its[i].kind = "site"
                        /\ \A j \in 1..(i-1) : its[j].kind # "site"]
        grid   == OccGrid(its, w, h)
        XMAX   == w - gw
        YMAX   == h - gh
        stepX  == anchor.gw + 2 * GUTTER
        stepY  == anchor.gh + 2 * GUTTER
        rRightMax == (XMAX - siteBaseRight(anchor)) \div stepX
        rLeftMax  == (anchor.gx - gw - 2 * GUTTER) \div stepX
        rDownMax  == (YMAX - (anchor.gy + anchor.gh + 2 * GUTTER)) \div stepY
        rUpMax    == (anchor.gy - gh - 2 * GUTTER) \div stepY
        RMAX   == SetMax({rRightMax, rLeftMax, rDownMax, rUpMax})
        inX(x) == x >= 0 /\ x <= XMAX
        inY(y) == y >= 0 /\ y <= YMAX
        try(x, y) == inX(x) /\ inY(y) /\ canPlacePS(x, y, gw, gh, grid, w, h)
        xR(r)  == siteBaseRight(anchor) + r * stepX
        yD(r)  == anchor.gy + anchor.gh + 2 * GUTTER + r * stepY
        xL(r)  == anchor.gx - gw - 2 * GUTTER - r * stepX
        yU(r)  == anchor.gy - gh - 2 * GUTTER - r * stepY
        col(x, r) == [k \in 1..(2*r + 1) |-> <<x, anchor.gy + (k - 1 - r) * stepY>>]
        row(y, r) == [k \in 1..(2*r + 1) |-> <<anchor.gx + (k - 1 - r) * stepX, y>>]
        ring(r) ==
          (IF inX(xR(r)) THEN col(xR(r), r) \o << <<xR(r), yU(r)>> >> ELSE << >>)
          \o (IF inY(yD(r)) THEN row(yD(r), r) \o << <<xR(r), yD(r)>> >> ELSE << >>)
          \o (IF inX(xL(r)) THEN col(xL(r), r) \o << <<xL(r), yD(r)>> >> ELSE << >>)
          \o (IF inY(yU(r)) THEN row(yU(r), r) \o << <<xL(r), yU(r)>> >> ELSE << >>)
    IN IF RMAX < 0 THEN NoSpace
       ELSE FirstPlace(Concat([r1 \in 1..(RMAX + 1) |-> ring(r1 - 1)]), try)

\* Scenario B: one anchor at (0,0,4,4) on a 20x20 canvas, a 4x4 candidate
ScenarioB ==
  [W |-> 20, H |-> 20, gw |-> 4, gh |-> 4,
   items |-> << Item("a", "site", 0, 0, 4, 4) >>]

\* a centred anchor with room for a whole ring of sites of its own size
ScenarioCentred ==
  [W |-> 20, H |-> 20, gw |-> 4, gh |-> 4,
   items |-> << Item("a", "site", 8, 8, 4, 4) >>]

SiteCanvases == { [W |-> 8, H |-> 7] }

\* where the first site sits on a small canvas: corners, centre, edges
SiteAnchors ==
  { [gx |-> 0, gy |-> 0, gw |-> 2, gh |-> 2], [gx |-> 3, gy |-> 2, gw |-> 2, gh |-> 2],
    [gx |-> 6, gy |-> 5, gw |-> 2, gh |-> 2], [gx |-> 3, gy |-> 0, gw |-> 1, gh |-> 2],
    [gx |-> 0, gy |-> 3, gw |-> 2, gh |-> 1] }

SiteSizes == PlaceSizes \cup {ScenarioB.gw}

\* the first site is on the canvas: on a small canvas, or Scenario B
InitSite ==
  /\ \/ \E c \in SiteCanvases :
          /\ W = c.W /\ H = c.H
          /\ \E r \in SiteAnchors :
               items = << Item("a", "site", r.gx, r.gy, r.gw, r.gh) >>
     \/ W = ScenarioB.W /\ H = ScenarioB.H /\ items = ScenarioB.items
     \/ W = ScenarioCentred.W /\ H = ScenarioCentred.H /\ items = ScenarioCentred.items
  /\ op = NoOp
  /\ applied = 0
  /\ GrowIdle
  /\ ComboIdle
  /\ NetIdle
  /\ intensity = 0 /\ LayIdle

\* a site is added where the strict radial strategy says, or rejected
AddStrict ==
  /\ Len(items) < MaxPlaced
  /\ \E gw \in SiteSizes, gh \in SiteSizes :
       LET pos == findPlacementSiteRDLUStrict(items, gw, gh, W, H)
       IN  /\ items' = IF pos.ok
                       THEN Append(items, Item(Ids[Len(items) + 1], "site",
                                               pos.gx, pos.gy, gw, gh))
                       ELSE items
           /\ op' = [name |-> "place", strategy |-> "strict", gw |-> gw,
                     gh |-> gh, ok |-> pos.ok]
  /\ UNCHANGED <<W, H, applied>>
  /\ UNCHANGED growVars
  /\ UNCHANGED comboVars
  /\ UNCHANGED netVars
  /\ UNCHANGED layVars

NextSite == AddStrict

SpecSite == InitSite /\ [][NextSite]_vars

\* the second item is a 4x4 placed next to the lone anchor of Scenario B
ScenarioBPlaced ==
  /\ W = ScenarioB.W /\ H = ScenarioB.H /\ Len(items) >= 2
  /\ items[1] = ScenarioB.items[1]
  /\ items[2].gw = ScenarioB.gw /\ items[2].gh = ScenarioB.gh

\* C12 as stated: with one anchor at (0,0,4,4) on a 20x20 canvas, strict-radial
\* placement of a second 4x4 item returns origin (10,0).
C12_Original == ScenarioBPlaced => (items[2].gx = 10 /\ items[2].gy = 0)

\* C12 amended: the origin returned is (0+4+2*1, 0) = (6,0), ring 0, side Right.
C12_ScenarioBAt6 == ScenarioBPlaced => (items[2].gx = 6 /\ items[2].gy = 0)

C12_Witness ==
  ScenarioBPlaced /\ Len(items) = 2 /\ op.name = "place" /\ op.ok
  /\ items[2].gx = 6 /\ items[2].gy = 0

----------------------------------------------------------------------------
(* GapCloser: stretchToCanvasEdges and collectCompute *)

RECURSIVE TotalArea(_)
TotalArea(its) ==
  IF its = <<>> THEN 0
  ELSE Head(its).gw * Head(its).gh + TotalArea(Tail(its))

\* indices 1..Len(keys) in ascending key order, equal keys in index order
\* (Array.prototype.sort is stable)
SortedIdxs(keys) ==
  LET n == Len(keys)
      rank(i) == Cardinality({ j \in 1..n :
                    keys[j] < keys[i] \/ (keys[j] = keys[i] /\ j < i) }) + 1
  IN [r \in 1..n |-> CHOOSE i \in 1..n : rank(i) = r]

Reverse(sq) == [k \in 1..Len(sq) |-> sq[Len(sq) + 1 - k]]

Others(a, i) == SubSeq(a, 1, i - 1) \o SubSeq(a, i + 1, Len(a))

StretchStages == << "left", "up", "right", "down" >>
CollectDirs   == << "right", "left", "down", "up" >>

\* stretchToCanvasEdges.sortFor: closest to the stage's edge first
sortFor(a, dir) ==
  SortedIdxs([i \in 1..Len(a) |->
     CASE dir = "left"  -> a[i].gx
       [] dir = "right" -> -(a[i].gx + a[i].gw)
       [] dir = "up"    -> a[i].gy
       [] dir = "down"  -> -(a[i].gy + a[i].gh)])

\* collectCompute.order, and the per-direction order derived from it
collectOrder(a) == SortedIdxs([i \in 1..Len(a) |-> a[i].gx * 100000 + a[i].gy])

collectIdxs(ord, dir) == IF dir \in {"left", "up"} THEN Reverse(ord) ELSE ord

\* the rectangle after one cell of growth in a direction
Grown(it, dir) ==
  CASE dir = "right" -> [it EXCEPT !.gw = @ + 1]
    [] dir = "left"  -> [it EXCEPT !.gx = @ - 1, !.gw = @ + 1]
    [] dir = "down"  -> [it EXCEPT !.gh = @ + 1]
    [] dir = "up"    -> [it EXCEPT !.gy = @ - 1, !.gh = @ + 1]

\* first conjunct of stretchToCanvasEdges.tryGrow: room left before the target edge
StretchRoomShort(it, dir, tgt) ==
  CASE dir = "right" -> it.gx + it.gw < tgt.maxX
    [] dir = "left"  -> it.gx - 1 > tgt.minX
    [] dir = "down"  -> it.gy + it.gh < tgt.maxY
    [] dir = "up"    -> it.gy - 1 > tgt.minY

StretchRoom(it, dir, tgt) ==
  CASE dir = "right" -> it.gx + it.gw - 1 < tgt.maxX
    [] dir = "left"  -> it.gx > tgt.minX
    [] dir = "down"  -> it.gy + it.gh - 1 < tgt.maxY
    [] dir = "up"    -> it.gy > tgt.minY

\* variant: room is granted one cell beyond the target edge
CollectRoomLoose(it, dir, tgt) ==
  CASE dir = "right" -> it.gx + it.gw <= tgt.maxX + 1
    [] dir = "left"  -> it.gx - 1 >= tgt.minX - 1
    [] dir = "down"  -> it.gy + it.gh <= tgt.maxY + 1
    [] dir = "up"    -> it.gy - 1 >= tgt.minY - 1

\* first conjunct of collectCompute.tryGrow
CollectRoom(it, dir, tgt) ==
  CASE dir = "right" -> it.gx + it.gw <= tgt.maxX
    [] dir = "left"  -> it.gx - 1 >= tgt.minX
    [] dir = "down"  -> it.gy + it.gh <= tgt.maxY
    [] dir = "up"    -> it.gy - 1 >= tgt.minY

\* tryGrow(i, dir) succeeds
tryGrowOk(mode, a, i, dir, tgt, w, h) ==
  LET g == Grown(a[i], dir) IN
  /\ IF mode = "stretch" THEN StretchRoom(a[i], dir, tgt) ELSE CollectRoom(a[i], dir, tgt)
  /\ canPlaceWithStdGutter(g.gx, g.gy, g.gw, g.gh, Others(a, i), w, h)

GrowMinIters == 1000

GrowBudget(a, tgt) ==
  LET targetArea == (tgt.maxX - tgt.minX + 1) * (tgt.maxY - tgt.minY + 1)
      curArea    == TotalArea(a)
      missing    == Max2(0, targetArea - curArea)
  IN Max2(GrowMinIters, missing * 8)

\* stretchToCanvasEdges as a function of its input.  A run is the record
\* [arr, iter, changed]; cx holds the target, the canvas and the budget.
RECURSIVE stretchItem(_, _, _, _)
stretchItem(s, i, dir, cx) ==
  IF s.iter < cx.max /\ tryGrowOk("stretch", s.arr, i, dir, cx.tgt, cx.w, cx.h)
  THEN stretchItem([arr |-> [s.arr EXCEPT ![i] = Grown(@, dir)],
                    iter |-> s.iter + 1, changed |-> TRUE], i, dir, cx)
  ELSE s

RECURSIVE stretchStage(_, _, _, _, _)
stretchStage(s, ix, p, dir, cx) ==
  IF p > Len(ix) THEN s
  ELSE stretchStage(stretchItem(s, ix[p], dir, cx), ix, p + 1, dir, cx)

RECURSIVE stretchPass(_, _, _)
stretchPass(s, d, cx) ==
  IF d > Len(StretchStages) THEN s
  ELSE stretchPass(stretchStage(s, sortFor(s.arr, StretchStages[d]), 1,
                                StretchStages[d], cx), d + 1, cx)

RECURSIVE stretchLoop(_, _)
stretchLoop(s, cx) ==
  LET s1 == stretchPass([s EXCEPT !.changed = FALSE], 1, cx)
  IN  IF s1.changed /\ s1.iter < cx.max THEN stretchLoop(s1, cx) ELSE s1

stretchToCanvasEdges(its, w, h) ==
  LET tgt == [minX |-> 0, minY |-> 0, maxX |-> w - 1, maxY |-> h - 1]
      cx  == [tgt |-> tgt, w |-> w, h |-> h, max |-> GrowBudget(its, tgt)]
  IN  stretchLoop([arr |-> its, iter |-> 0, changed |-> TRUE], cx).arr

GrowMode == op.name

\* the stepwise run of stretchToCanvasEdges ends with the function's value
StretchAgrees ==
  (gpc = "done" /\ op.name = "stretch") => arr = stretchToCanvasEdges(items, W, H)

GrowDirs == IF GrowMode = "stretch" THEN StretchStages ELSE CollectDirs

\* canvases of the generic stretch/collect inputs
GrowCanvases == { [W |-> 3, H |-> 3] }

\* Scenario E and its translates: one 2x2 item somewhere on a 10x10 canvas
ScenarioELists ==
  { << Item("a", "image", x, y, 2, 2) >> : x \in 0..8, y \in 0..8 }

InitGrow ==
  /\ \/ \E c \in GrowCanvases :
          /\ W = c.W /\ H = c.H
          /\ \E n \in 1..MaxGrowItems : items \in ItemLists(n, c.W, c.H)
     \/ /\ W = 10 /\ H = 10
        /\ items \in ScenarioELists
  /\ op = NoOp
  /\ applied = 0
  /\ GrowIdle
  /\ ComboIdle
  /\ NetIdle
  /\ intensity = 0 /\ LayIdle

\* entry of stretchToCanvasEdges: clone, target = canvas, budget, first pass begins
StretchCall ==
  /\ gpc = "idle" /\ op = NoOp
  /\ op' = [name |-> "stretch"]
  /\ arr' = items
  /\ target' = [minX |-> 0, minY |-> 0, maxX |-> W - 1, maxY |-> H - 1]
  /\ order' = <<>>
  /\ maxIters' = GrowBudget(items, target')
  /\ changed' = FALSE /\ iter' = 0
  /\ dirIx' = 1 /\ idxs' = <<>> /\ ip' = 0
  /\ gpc' = "stage"
  /\ UNCHANGED <<W, H, items, applied>>
  /\ UNCHANGED layVars
  /\ UNCHANGED comboVars
  /\ UNCHANGED netVars

\* entry of collectCompute: clone, target = tight bbox of the input, fixed order
CollectCall ==
  /\ gpc = "idle" /\ op = NoOp
  /\ Len(items) > 0
  /\ op' = [name |-> "collect"]
  /\ arr' = items
  /\ target' = getBBoxTight(items)
  /\ order' = collectOrder(items)
  /\ maxIters' = GrowBudget(items, target')
  /\ changed' = FALSE /\ iter' = 0
  /\ dirIx' = 1 /\ idxs' = <<>> /\ ip' = 0
  /\ gpc' = "stage"
  /\ UNCHANGED <<W, H, items, applied>>
  /\ UNCHANGED layVars
  /\ UNCHANGED comboVars
  /\ UNCHANGED netVars

\* for (const dir of stages): fix the item order of this stage
GrowStage ==
  /\ gpc = "stage"
  /\ idxs' = IF GrowMode = "stretch" THEN sortFor(arr, GrowDirs[dirIx])
             ELSE collectIdxs(order, GrowDirs[dirIx])
  /\ ip' = 1
  /\ gpc' = "grow"
  /\ UNCHANGED <<W, H, items, op, applied, arr, target, order, changed, iter, maxIters, dirIx>>
  /\ UNCHANGED layVars
  /\ UNCHANGED comboVars
  /\ UNCHANGED netVars

\* while (tryGrow(i, dir)) { changed = true; if (++iter >= maxIters) break; }
GrowStep ==
  /\ gpc = "grow" /\ ip <= Len(idxs)
  /\ tryGrowOk(GrowMode, arr, idxs[ip], GrowDirs[dirIx], target, W, H)
  /\ arr' = [arr EXCEPT ![idxs[ip]] = Grown(@, GrowDirs[dirIx])]
  /\ changed' = TRUE
  /\ iter' = iter + 1
  /\ gpc' = IF iter + 1 >= maxIters THEN "done" ELSE "grow"
  /\ UNCHANGED <<W, H, items, op, applied, target, order, maxIters, dirIx, idxs, ip>>
  /\ UNCHANGED layVars
  /\ UNCHANGED comboVars
  /\ UNCHANGED netVars

\* tryGrow failed: next item of the stage
GrowNextItem ==
  /\ gpc = "grow" /\ ip <= Len(idxs)
  /\ ~tryGrowOk(GrowMode, arr, idxs[ip], GrowDirs[dirIx], target, W, H)
  /\ ip' = ip + 1
  /\ UNCHANGED <<W, H, items, op, applied, gpc, arr, target, order, changed, iter, maxIters, dirIx, idxs>>
  /\ UNCHANGED layVars
  /\ UNCHANGED comboVars
  /\ UNCHANGED netVars

\* stage exhausted: next direction
GrowNextStage ==
  /\ gpc = "grow" /\ ip > Len(idxs) /\ dirIx < Len(GrowDirs)
  /\ dirIx' = dirIx + 1
  /\ gpc' = "stage"
  /\ UNCHANGED <<W, H, items, op, applied, arr, target, order, changed, iter, maxIters, idxs, ip>>
  /\ UNCHANGED layVars
  /\ UNCHANGED comboVars
  /\ UNCHANGED netVars

\* all four stages done and something grew: another pass
GrowNextPass ==
  /\ gpc = "grow" /\ ip > Len(idxs) /\ dirIx = Len(GrowDirs)
  /\ changed /\ iter < maxIters
  /\ changed' = FALSE
  /\ dirIx' = 1
  /\ gpc' = "stage"
  /\ UNCHANGED <<W, H, items, op, applied, arr, target, order, iter, maxIters, idxs, ip>>
  /\ UNCHANGED layVars
  /\ UNCHANGED comboVars
  /\ UNCHANGED netVars

\* a full pass without growth: return arr
GrowReturn ==
  /\ gpc = "grow" /\ ip > Len(idxs) /\ dirIx = Len(GrowDirs)
  /\ ~(changed /\ iter < maxIters)
  /\ gpc' = "done"
  /\ UNCHANGED <<W, H, items, op, applied, arr, target, order, changed, iter, maxIters, dirIx, idxs, ip>>
  /\ UNCHANGED layVars
  /\ UNCHANGED comboVars
  /\ UNCHANGED netVars

NextGrow ==
  \/ StretchCall
  \/ CollectCall
  \/ GrowStage
  \/ GrowStep
  \/ GrowNextItem
  \/ GrowNextStage
  \/ GrowNextPass
  \/ GrowReturn

SpecGrow == InitGrow /\ [][NextGrow]_vars

\* two rectangles share no cell
RectsDisjoint(a, b) ==
  \/ a.gx + a.gw <= b.gx \/ b.gx + b.gw <= a.gx
  \/ a.gy + a.gh <= b.gy \/ b.gy + b.gh <= a.gy

\* C9: for growToEdges (stretch) and growToBoundingBox (collect) alike, the
\* returned list has total area >= the input's, and every pair of items that
\* is disjoint in the input is disjoint in the output.
C9_GrowKeepsAreaAndDisjointness ==
  gpc = "done" =>
    /\ Len(arr) = Len(items)
    /\ TotalArea(arr) >= TotalArea(items)
    /\ \A i, j \in 1..Len(items) :
         (i # j /\ RectsDisjoint(items[i], items[j])) => RectsDisjoint(arr[i], arr[j])

\* a finished call on two disjoint items in which both of them grew
C9_Witness ==
  /\ gpc = "done" /\ Len(items) = 2
  /\ RectsDisjoint(items[1], items[2])
  /\ arr[1].gw * arr[1].gh > items[1].gw * items[1].gh
  /\ arr[2].gw * arr[2].gh > items[2].gw * items[2].gh

\* C10: a single item inside an otherwise empty canvas is grown by
\* growToEdges to exactly the full canvas, and the loop ends because a pass
\* made no growth, not because the budget ran out.
C10_SingleItemFillsCanvas ==
  (gpc = "done" /\ op.name = "stretch" /\ Len(items) = 1 /\ Settled(items, W, H)) =>
    /\ arr[1].gx = 0 /\ arr[1].gy = 0 /\ arr[1].gw = W /\ arr[1].gh = H
    /\ iter < maxIters

\* Scenario E: the 2x2 item of a 10x10 canvas has become 10x10
C10_Witness ==
  /\ gpc = "done" /\ op.name = "stretch"
  /\ W = 10 /\ H = 10
  /\ items = << Item("a", "image", 4, 4, 2, 2) >>
  /\ arr = << Item("a", "image", 0, 0, 10, 10) >>
  /\ iter = 16

----------------------------------------------------------------------------
(* computeEdgeShift *)

\* requested deltas: none, one cell either way, and more than any canvas allows
Deltas == {-10, -1, 0, 1, 10}

\* canvases of the generic edge-shift inputs (a wide one and a one-column strip)
EdgeCanvases == { [W |-> 3, H |-> 2], [W |-> 1, H |-> 3] }

\* variant: an id that is not in the list stands for the first item
IndexOfIdOrFirst(its, id) ==
  IF \E j \in 1..Len(its) : its[j].id = id
    THEN CHOOSE j \in 1..Len(its) :
           its[j].id = id /\ \A k \in 1..(j-1) : its[k].id # id
    ELSE 1

IndexOfId(its, id) ==
  IF \E j \in 1..Len(its) : its[j].id = id
    THEN CHOOSE j \in 1..Len(its) :
           its[j].id = id /\ \A k \in 1..(j-1) : its[k].id # id
    ELSE 0

\* position and extent of an item along the axis the dragged line moves on
AxisPos(it, horiz)  == IF horiz THEN it.gx ELSE it.gy
AxisSize(it, horiz) == IF horiz THEN it.gw ELSE it.gh

\* lower end of the feasible delta interval: the near group (left/top, far
\* edge on the line) keeps size >= 1, the far group (right/bottom) keeps
\* its origin >= 0
EdgeLoNoFloor(prev, nearIdxs, farIdxs, horiz) ==
  SetMax({ -AxisSize(prev[j], horiz) : j \in nearIdxs }
         \cup { -AxisPos(prev[j], horiz) : j \in farIdxs })

EdgeLo(prev, nearIdxs, farIdxs, horiz) ==
  SetMax({ 1 - AxisSize(prev[j], horiz) : j \in nearIdxs }
         \cup { -AxisPos(prev[j], horiz) : j \in farIdxs })

\* upper end: the near group stays inside the canvas limit, the far group
\* keeps size >= 1
EdgeHiNoFloor(prev, nearIdxs, farIdxs, horiz, limit) ==
  SetMin({ limit - (AxisPos(prev[j], horiz) + AxisSize(prev[j], horiz)) : j \in nearIdxs }
         \cup { AxisSize(prev[j], horiz) : j \in farIdxs })

EdgeHi(prev, nearIdxs, farIdxs, horiz, limit) ==
  SetMin({ limit - (AxisPos(prev[j], horiz) + AxisSize(prev[j], horiz)) : j \in nearIdxs }
         \cup { AxisSize(prev[j], horiz) - 1 : j \in farIdxs })

\* variant: the far group keeps its place
EdgeApplyNearOnly(prev, nearIdxs, farIdxs, horiz, d) ==
  [j \in 1..Len(prev) |->
     IF j \in nearIdxs
       THEN IF horiz THEN [prev[j] EXCEPT !.gw = @ + d]
                     ELSE [prev[j] EXCEPT !.gh = @ + d]
       ELSE prev[j]]

\* the committed geometry: near group grows by d, far group moves by d and shrinks by d
EdgeApply(prev, nearIdxs, farIdxs, horiz, d) ==
  [j \in 1..Len(prev) |->
     IF j \in nearIdxs
       THEN IF horiz THEN [prev[j] EXCEPT !.gw = @ + d]
                     ELSE [prev[j] EXCEPT !.gh = @ + d]
     ELSE IF j \in farIdxs
       THEN IF horiz THEN [prev[j] EXCEPT !.gx = @ + d, !.gw = @ - d]
                     ELSE [prev[j] EXCEPT !.gy = @ + d, !.gh = @ - d]
       ELSE prev[j]]

\* result of computeEdgeShift(prev, id, edge, delta, W, H): [next, applied]
computeEdgeShift(prev, id, edge, delta, w, h) ==
  LET itIdx == IndexOfId(prev, id)
      none  == [next |-> prev, applied |-> 0]
  IN
  IF delta = 0 THEN none
  ELSE IF itIdx = 0 THEN none
  ELSE
    LET it    == prev[itIdx]
        horiz == edge \in {"left", "right"}
        line  == IF edge \in {"right", "down"}
                   THEN AxisPos(it, horiz) + AxisSize(it, horiz)
                   ELSE AxisPos(it, horiz)
        nearIdxs == { j \in 1..Len(prev) :
                        AxisPos(prev[j], horiz) + AxisSize(prev[j], horiz) = line }
        farIdxs  == { j \in 1..Len(prev) : AxisPos(prev[j], horiz) = line }
    IN
    IF nearIdxs = {} \/ farIdxs = {} THEN none
    ELSE
      LET lo == EdgeLo(prev, nearIdxs, farIdxs, horiz)
          hi == EdgeHi(prev, nearIdxs, farIdxs, horiz, IF horiz THEN w ELSE h)
          d  == clamp(delta, lo, hi)
      IN
      IF d = 0 THEN none
      ELSE [next |-> EdgeApply(prev, nearIdxs, farIdxs, horiz, d), applied |-> d]

\* the lists of ItemLists up to the order of their items: computeEdgeShift
\* looks items up by id and collects the groups as sets, so one order of
\* each collection of rectangles stands for all
RectKey(it) == ((it.gx * 16 + it.gy) * 16 + it.gw) * 16 + it.gh

OrderedLists(n, w, h) ==
  { l \in ItemLists(n, w, h) : \A i \in 1..(n - 1) : RectKey(l[i]) <= RectKey(l[i+1]) }

\* Scenario D: two groups sharing the line x = 4 on a 10-wide canvas
ScenarioD ==
  [W |-> 10, H |-> 4,
   items |-> << Item("a", "image", 0, 0, 4, 4), Item("b", "image", 4, 0, 4, 4) >>]

InitEdge ==
  /\ \/ \E c \in EdgeCanvases :
          /\ W = c.W /\ H = c.H
          /\ \E n \in 1..MaxEdgeItems : items \in OrderedLists(n, c.W, c.H)
     \/ /\ W = ScenarioD.W /\ H = ScenarioD.H
        /\ items = ScenarioD.items
  /\ op = NoOp
  /\ applied = 0
  /\ GrowIdle
  /\ ComboIdle
  /\ NetIdle
  /\ intensity = 0 /\ LayIdle

\* onEdgeDrag -> computeEdgeShift: one call, committing the returned list
ShiftEdge ==
  \E i \in 1..Len(items), edge \in Dirs, delta \in Deltas :
    LET res == computeEdgeShift(items, items[i].id, edge, delta, W, H) IN
    /\ items' = res.next
    /\ applied' = res.applied
    /\ op' = [name |-> "shiftEdge", id |-> items[i].id, edge |-> edge, delta |-> delta]
    /\ UNCHANGED <<W, H>>
    /\ UNCHANGED growVars
    /\ UNCHANGED comboVars
    /\ UNCHANGED netVars
    /\ UNCHANGED layVars

\* an id no item of the list has
NoSuchId == "zz"

\* the same call with the id of no item
ShiftEdgeUnknownId ==
  \E edge \in Dirs, delta \in Deltas :
    LET res == computeEdgeShift(items, NoSuchId, edge, delta, W, H) IN
    /\ items' = res.next
    /\ applied' = res.applied
    /\ op' = [name |-> "shiftEdge", id |-> NoSuchId, edge |-> edge, delta |-> delta]
    /\ UNCHANGED <<W, H>>
    /\ UNCHANGED growVars
    /\ UNCHANGED comboVars
    /\ UNCHANGED netVars
    /\ UNCHANGED layVars

NextEdge == ShiftEdge

SpecEdge == InitEdge /\ [][NextEdge]_vars

\* lists of one or two items on the wide canvas, and Scenario D
AbortLists == ItemLists(1, 3, 2) \cup ItemLists(2, 3, 2)

InitEdgeAny ==
  /\ \/ W = 3 /\ H = 2 /\ items \in AbortLists
     \/ W = ScenarioD.W /\ H = ScenarioD.H /\ items = ScenarioD.items
  /\ op = NoOp
  /\ applied = 0
  /\ GrowIdle
  /\ ComboIdle
  /\ NetIdle
  /\ intensity = 0 /\ LayIdle

NextEdgeAny == ShiftEdge \/ ShiftEdgeUnknownId

\* edge shifts with known and unknown ids
SpecEdgeAny == InitEdgeAny /\ [][NextEdgeAny]_vars

\* the dragged boundary line of a call, and the items with an edge on it
DragLine(its, o) ==
  LET it == its[CHOOSE j \in 1..Len(its) : its[j].id = o.id]
  IN  CASE o.edge = "right" -> it.gx + it.gw
        [] o.edge = "left"  -> it.gx
        [] o.edge = "down"  -> it.gy + it.gh
        [] o.edge = "up"    -> it.gy

\* items ending on the line (left of it or above it)
NearGroup(its, o) ==
  { j \in 1..Len(its) :
      IF o.edge \in {"left", "right"} THEN its[j].gx + its[j].gw = DragLine(its, o)
      ELSE its[j].gy + its[j].gh = DragLine(its, o) }

\* items starting on the line (right of it or below it)
FarGroup(its, o) ==
  { j \in 1..Len(its) :
      IF o.edge \in {"left", "right"} THEN its[j].gx = DragLine(its, o)
      ELSE its[j].gy = DragLine(its, o) }

UnknownId(its, o) == \A j \in 1..Len(its) : its[j].id # o.id

\* the call o on the list its must abort
AbortCase(its, o) ==
  \/ UnknownId(its, o)
  \/ NearGroup(its, o) = {}
  \/ FarGroup(its, o) = {}

\* C16: if the item id is unknown, or the near group or the far group of the
\* dragged line is empty, shiftEdge applies nothing: the item list is returned
\* with every geometry unchanged and the applied delta is 0.
C16_AbortAppliesNothing ==
  [][ (op'.name = "shiftEdge" /\ AbortCase(items, op'))
        => (items' = items /\ applied' = 0) ]_vars

\* an unknown id was dragged by +10 and nothing was applied
C16_Witness ==
  /\ op.name = "shiftEdge" /\ op.id = NoSuchId /\ op.delta = 10
  /\ applied = 0 /\ Len(items) = 2

\* a known item was dragged by +10 on a line with an empty far group
C16_WitnessEmptyGroup ==
  /\ op.name = "shiftEdge" /\ op.id # NoSuchId /\ op.delta = 10
  /\ applied = 0 /\ FarGroup(items, op) = {} /\ NearGroup(items, op) # {}

\* C7: after any sequence of shiftEdge calls on a settled list, every item
\* still has gw >= 1 and gh >= 1 and lies within [0,W] x [0,H].
C7_ShiftKeepsSettled == Settled(items, W, H)

\* a requested +10 was clamped to a smaller non-zero shift and committed
C7_Witness ==
  /\ op.name = "shiftEdge" /\ op.delta = 10
  /\ applied \in 1..9
  /\ \E i \in 1..Len(items) : items[i].gw = 1 \/ items[i].gh = 1

ScenarioDCall(o) ==
  o.name = "shiftEdge" /\ o.id = "a" /\ o.edge = "right" /\ o.delta = 10

\* C8 as stated: in Scenario D (left group x 0..4, right group x 4..8, canvas
\* width 10) shiftEdge(left item, right, +10) applies a delta of exactly 1.
C8_Original ==
  [][ (W = ScenarioD.W /\ items = ScenarioD.items /\ ScenarioDCall(op'))
        => applied' = 1 ]_vars

\* C8 amended: in Scenario D shiftEdge(left item, right, +10) applies exactly
\* 3 = (right group's width 4) - 1; the canvas bound 10 - 4 = 6 is not binding.
C8_ScenarioDApplies3 ==
  [][ (W = ScenarioD.W /\ items = ScenarioD.items /\ ScenarioDCall(op'))
        => /\ applied' = 3
           /\ items' = << Item("a", "image", 0, 0, 7, 4), Item("b", "image", 7, 0, 1, 4) >> ]_vars

C8_Witness ==
  /\ W = ScenarioD.W /\ ScenarioDCall(op) /\ applied = 3
  /\ items = << Item("a", "image", 0, 0, 7, 4), Item("b", "image", 7, 0, 1, 4) >>

----------------------------------------------------------------------------
(* Moodboard: the BSP tiler.  Real-valued quantities of the source are kept
   exact: a ratio is a pair of integers and comparisons cross-multiply.      *)

Region(x, y, w, h, n, depth) ==
  [x |-> x, y |-> y, w |-> w, h |-> h, n |-> n, depth |-> depth]

\* a/b <= c/d for a, c >= 0 and b, d > 0, by comparing continued fractions
\* (no product is formed, so no intermediate value leaves the integer range)
RECURSIVE LeqFrac(_, _, _, _)
LeqFrac(a, b, c, d) ==
  LET qa == a \div b
      qc == c \div d
      ra == a % b
      rc == c % d
  IN  IF qa # qc THEN qa < qc
      ELSE IF ra = 0 THEN TRUE
      ELSE IF rc = 0 THEN FALSE
      ELSE LeqFrac(d, rc, b, ra)

\* intenK = 0.65 - 0.15*t as a numerator over 2000, t = t100/100
intenK2000(t100) == 1300 - 3 * t100

\* retryK = max(0.35, 1 - 0.22*attempt) as a numerator over 100
retryK100(att) == Max2(35, 100 - 22 * att)

\* floor(sqrt(W*H/count) * intenK * retryK) clamped to [2, floor(min(W,H)/2)]:
\* m <= sqrt(A/c)*i*r  <=>  c*m^2 / (A*i^2) <= r^2
computeMinSideCells(w, h, count, t100, att) ==
  LET c        == Max2(1, count)
      A        == w * h
      maxClamp == Min2(w, h) \div 2
      fits(m)  == LeqFrac(c * m * m * 2000 * 2000,
                          A * intenK2000(t100) * intenK2000(t100),
                          retryK100(att) * retryK100(att), 100 * 100)
      capped   == SetMax({ m \in 0..maxClamp : fits(m) })
  IN  Max2(2, capped)

NoRange == [ok |-> FALSE, lo |-> 0, hi |-> 0]

\* RMIN = 9/16, RMAX = 16/9: ceil(RMIN*h) = (9h+15) div 16, floor(RMAX*h) = 16h div 9
vRange(w, h, MINC) ==
  LET lo == Max2(MINC, Max2((9 * h + 15) \div 16, w - ((16 * h) \div 9)))
      hi == Min2(w - MINC, Min2((16 * h) \div 9, w - ((9 * h + 15) \div 16)))
  IN  IF lo <= hi THEN [ok |-> TRUE, lo |-> lo, hi |-> hi] ELSE NoRange

\* ceil(w/RMAX) = (9w+15) div 16, floor(w/RMIN) = 16w div 9
hRange(w, h, MINC) ==
  LET lo == Max2(MINC, Max2((9 * w + 15) \div 16, h - ((16 * w) \div 9)))
      hi == Min2(h - MINC, Min2((16 * w) \div 9, h - ((9 * w + 15) \div 16)))
  IN  IF lo <= hi THEN [ok |-> TRUE, lo |-> lo, hi |-> hi] ELSE NoRange

Divisible(r, MINC) == vRange(r.w, r.h, MINC).ok \/ hRange(r.w, r.h, MINC).ok

\* |log(a.w/a.h)| < |log(b.w/b.h)|
SkewLess(a, b) ==
  Max2(a.w, a.h) * Min2(b.w, b.h) < Max2(b.w, b.h) * Min2(a.w, a.h)

SameRatio(a, b) == a.w * b.h = b.w * a.h

\* The indices pickRegionIndex can return.  t > 0.6: any region with n > 1.
\* Otherwise the stable sort by |log ar| descending, then area descending,
\* puts first the earliest largest region of the most skewed ratio; a ratio and
\* its reciprocal have equal |log| only up to the rounding of Math.log, so
\* either of the two may come first.
pickRegionIndex(regs, t100) ==
  LET cands == { i \in 1..Len(regs) : regs[i].n > 1 }
      top   == { i \in cands : \A j \in cands : ~SkewLess(regs[i], regs[j]) }
      cls(i) == { j \in top : SameRatio(regs[i], regs[j]) }
      area(i) == regs[i].w * regs[i].h
  IN  IF t100 > 60 THEN cands
      ELSE { i \in top : \A j \in cls(i) :
                 area(j) < area(i) \/ (area(j) = area(i) /\ i <= j) }

\* regions.filter(rr => rr !== r).sort(area descending)[0]; 0 when there is none
debtCand(regs, idx) ==
  LET others == { i \in 1..Len(regs) : i # idx }
      area(i) == regs[i].w * regs[i].h
  IN  IF others = {} THEN 0
      ELSE CHOOSE i \in others :
             \A j \in others : area(j) < area(i) \/ (area(j) = area(i) /\ i <= j)

jitter2000(t100) == 200 + 7 * t100

\* The values Math.round(side * wantP) can take, wantP = clamp(k/n + u*jitter,
\* 0.15, 0.85) with u in [-1, 1).  Fractions are numerators over 2000*n;
\* Math.round(x) = floor(x + 1/2).
roundedCuts(side, k, n, t100) ==
  LET D      == 2000 * n
      pLo    == 2000 * k - n * jitter2000(t100)
      pHi    == 2000 * k + n * jitter2000(t100)
      lo     == clamp(pLo, 300 * n, 1700 * n)
      hi     == clamp(pHi, 300 * n, 1700 * n)
      closed == pHi > 1700 * n \/ pHi <= 300 * n
      rnd(p) == (2 * side * p + D) \div (2 * D)
      top    == IF closed \/ (2 * side * hi + D) % (2 * D) # 0
                THEN rnd(hi) ELSE rnd(hi) - 1
  IN  rnd(lo)..Max2(rnd(lo), top)

\* splice(idx, 0, a, b): the parent stays in the list
InsertTwoKeepParent(regs, idx, a, b) ==
  SubSeq(regs, 1, idx) \o <<a, b>> \o SubSeq(regs, idx + 1, Len(regs))

\* regions.splice(idx, 1, a, b)
InsertTwo(regs, idx, a, b) ==
  SubSeq(regs, 1, idx - 1) \o <<a, b>> \o SubSeq(regs, idx + 1, Len(regs))

\* splitChildren with the second child keeping the whole count of its parent
splitChildrenCountKept(r, tryV, k, s1, dbt) ==
  LET A == IF tryV THEN Region(r.x, r.y, s1, r.h, k, r.depth + 1)
                   ELSE Region(r.x, r.y, r.w, s1, k, r.depth + 1)
      B == IF tryV THEN Region(r.x + s1, r.y, r.w - s1, r.h, r.n, r.depth + 1)
                   ELSE Region(r.x, r.y + s1, r.w, r.h - s1, r.n, r.depth + 1)
      firstBig == A.w * A.h >= B.w * B.h
  IN  << IF firstBig THEN [A EXCEPT !.n = @ + dbt] ELSE A,
         IF firstBig THEN B ELSE [B EXCEPT !.n = @ + dbt] >>

\* the two children of region r cut at s1, the debt going to the larger one
splitChildren(r, tryV, k, s1, dbt) ==
  LET A == IF tryV THEN Region(r.x, r.y, s1, r.h, k, r.depth + 1)
                   ELSE Region(r.x, r.y, r.w, s1, k, r.depth + 1)
      B == IF tryV THEN Region(r.x + s1, r.y, r.w - s1, r.h, r.n - k, r.depth + 1)
                   ELSE Region(r.x, r.y + s1, r.w, r.h - s1, r.n - k, r.depth + 1)
      firstBig == A.w * A.h >= B.w * B.h
  IN  << IF firstBig THEN [A EXCEPT !.n = @ + dbt] ELSE A,
         IF firstBig THEN B ELSE [B EXCEPT !.n = @ + dbt] >>

leavesOf(regs) == SelectSeq(regs, LAMBDA r : r.n = 1)

----------------------------------------------------------------------------
(* Moodboard: layoutMoodboard and reflowMoodboard around the tiler *)

IsMedia(it) == it.kind = "image" \/ it.kind = "video"

\* getAspect reading the item's current box, height over width
getAspectOfBox(it) == <<it.gh, it.gw>>

\* getAspect as a ratio <<num, den>>: the natural ratio clamped to
\* [R_MIN, R_MAX] = [9/16, 16/9], or 4/3 when the natural size is unknown
getAspect(it) ==
  IF it.natW > 0 /\ it.natH > 0
  THEN IF 16 * it.natW < 9 * it.natH THEN <<9, 16>>
       ELSE IF 9 * it.natW > 16 * it.natH THEN <<16, 9>>
       ELSE <<it.natW, it.natH>>
  ELSE <<4, 3>>

RatioLess(a, b) == a[1] * b[2] < b[1] * a[2]

\* indices 1..Len(rs) in ascending order of ratio, ties in index order
\* (Array.prototype.sort is stable)
sortByRatio(rs) ==
  LET n == Len(rs)
      before(j, i) == RatioLess(rs[j], rs[i]) \/ (~RatioLess(rs[i], rs[j]) /\ j < i)
      rank(i) == Cardinality({ j \in 1..n : before(j, i) }) + 1
  IN  [q \in 1..n |-> CHOOSE i \in 1..n : rank(i) = q]

Perms(n) == { q \in [1..n -> 1..n] : \A i, j \in 1..n : q[i] = q[j] => i = j }

IdPerm(n) == [i \in 1..n |-> i]

\* one entry of the record of random draws
Draw(a, v, k, s, q) == [a |-> a, v |-> v, k |-> k, s |-> s, q |-> q]

\* variant: the sanity check never reports an overlap
hasOverlapExactNever(its, w, h) == FALSE

\* buildOccPSExact(...).overlapped: two items claim the same canvas cell
hasOverlapExact(its, w, h) ==
  LET cells(it) ==
        { <<x, y>> \in (0..(w-1)) \X (0..(h-1)) :
            /\ it.gx <= x /\ x <= it.gx + it.gw - 1
            /\ it.gy <= y /\ y <= it.gy + it.gh - 1 }
  IN  \E i, j \in 1..Len(its) : i < j /\ cells(its[i]) \cap cells(its[j]) # {}

\* new Uint8Array(W * H) of buildOccPSExact raises a RangeError
exactAllocThrows(w, h) == w * h < 0

\* new Uint8Array(W * H) or new Uint32Array((W + 1) * (H + 1)) of buildOccPS
\* raises a RangeError
occAllocThrows(w, h) == w * h < 0 \/ (w + 1) * (h + 1) < 0

\* stretchToCanvasEdges raises: some tryGrow gets past its first conjunct and
\* canPlaceWithStdGutter builds the occupancy index
stretchThrows(its, w, h) ==
  /\ occAllocThrows(w, h)
  /\ \E i \in 1..Len(its), d \in 1..Len(StretchStages) :
       StretchRoom(its[i], StretchStages[d],
                   [minX |-> 0, minY |-> 0, maxX |-> w - 1, maxY |-> h - 1])

\* variant: the one-to-one pairing stops one item short
assignLeavesShortByOne(its, lvs, withNat) ==
  LET byLeafRatio == sortByRatio([i \in 1..Len(lvs) |-> <<lvs[i].w, lvs[i].h>>])
      N      == Min2(Len(lvs), Len(its)) - 1
      pos(j) == CHOOSE i \in 1..Len(its) : withNat[i] = j
      leaf(i) == IF i <= N THEN lvs[byLeafRatio[i]]
                 ELSE lvs[((i - N - 1) % Len(lvs)) + 1]
  IN  [j \in 1..Len(its) |->
         [its[j] EXCEPT !.gx = leaf(pos(j)).x, !.gy = leaf(pos(j)).y,
                        !.gw = leaf(pos(j)).w, !.gh = leaf(pos(j)).h]]

\* lines 1282-1300: pair the items in the order withNat with the leaves in
\* the order byLeafRatio; the items beyond the leaves go round the leaves
assignLeaves(its, lvs, withNat) ==
  LET byLeafRatio == sortByRatio([i \in 1..Len(lvs) |-> <<lvs[i].w, lvs[i].h>>])
      N      == Min2(Len(lvs), Len(its))
      pos(j) == CHOOSE i \in 1..Len(its) : withNat[i] = j
      leaf(i) == IF i <= N THEN lvs[byLeafRatio[i]]
                 ELSE lvs[((i - N - 1) % Len(lvs)) + 1]
  IN  [j \in 1..Len(its) |->
         [its[j] EXCEPT !.gx = leaf(pos(j)).x, !.gy = leaf(pos(j)).y,
                        !.gw = leaf(pos(j)).w, !.gh = leaf(pos(j)).h]]

MINC == computeMinSideCells(W, H, Len(work), intensity, attempt)

\* reflowMoodboard(prev, W, H, intensity) is called on the current list
ReflowCall ==
  /\ lpc = "idle" /\ runsLeft > 0
  /\ runsLeft' = runsLeft - 1
  /\ op' = [name |-> "reflow"]
  /\ prevItems' = items
  /\ prevTrace' = trace
  /\ trace' = <<>>
  /\ fullFill' = FALSE
  /\ lpc' = "layout"
  /\ UNCHANGED <<W, H, items, applied, intensity, work, attempt, regions, guard,
                 debt, leaves, out, nRuns>>
  /\ UNCHANGED growVars
  /\ UNCHANGED comboVars
  /\ UNCHANGED netVars

\* layoutMoodboard up to the attempts loop
LayoutBegin ==
  /\ lpc = "layout"
  /\ LET src == SelectSeq(prevItems, IsMedia)
     IN  IF src = <<>>
         THEN /\ work' = <<>> /\ out' = <<>> /\ lpc' = "laid"
              /\ UNCHANGED trace
         ELSE IF W <= 0 \/ H <= 0
         THEN /\ work' = src /\ out' = src /\ lpc' = "laid"
              /\ UNCHANGED trace
         ELSE /\ \E q \in IF fullFill THEN Perms(Len(src)) ELSE {IdPerm(Len(src))} :
                   /\ work' = [i \in 1..Len(src) |-> src[q[i]]]
                   /\ trace' = IF fullFill
                               THEN Append(trace, Draw(0, FALSE, 0, 0, q))
                               ELSE trace
              /\ lpc' = "begin"
              /\ UNCHANGED out
  /\ attempt' = 0
  /\ UNCHANGED <<W, H, items, op, applied, intensity, fullFill, regions, guard,
                 debt, leaves, prevTrace, prevItems, nRuns, runsLeft>>
  /\ UNCHANGED growVars
  /\ UNCHANGED comboVars
  /\ UNCHANGED netVars

\* bspTile entry; the leaves of an earlier attempt are abandoned, and with
\* them the draws that led to them (the shuffles, a = 0, stay)
BspBegin ==
  /\ lpc = "begin"
  /\ regions' = << Region(0, 0, W, H, Max2(1, Len(work)), 0) >>
  /\ guard' = MaxGuard
  /\ debt' = 0
  /\ trace' = SelectSeq(trace, LAMBDA d : d.a = 0)
  /\ lpc' = "main"
  /\ UNCHANGED <<W, H, items, op, applied, intensity, fullFill, work, attempt,
                 leaves, out, prevTrace, prevItems, nRuns, runsLeft>>
  /\ UNCHANGED growVars
  /\ UNCHANGED comboVars
  /\ UNCHANGED netVars

LoopOn(regs, g) == (\E i \in 1..Len(regs) : regs[i].n > 1) /\ g > 0

\* variant: the surplus of the frozen region is dropped, as the second pass
\* does at line 1222
freezeRegionDropsSurplus(regs, idx, dbt) ==
  [regions |-> [regs EXCEPT ![idx].n = 1], debt |-> dbt]

\* the picked region cannot be cut: it becomes a leaf and its surplus is debt,
\* handed at once to the largest other region
freezeRegion(regs, idx, dbt) ==
  LET debt1 == dbt + (IF regs[idx].n > 1 THEN regs[idx].n - 1 ELSE 0)
      regs1 == [regs EXCEPT ![idx].n = 1]
      cand  == debtCand(regs, idx)
  IN  IF cand # 0 /\ debt1 > 0
      THEN [regions |-> [regs1 EXCEPT ![cand].n = @ + debt1], debt |-> 0]
      ELSE [regions |-> regs1, debt |-> debt1]

BspFreeze ==
  /\ lpc = "main" /\ LoopOn(regions, guard)
  /\ \E idx \in pickRegionIndex(regions, intensity) :
       /\ ~Divisible(regions[idx], MINC)
       /\ regions' = freezeRegion(regions, idx, debt).regions
       /\ debt' = freezeRegion(regions, idx, debt).debt
       /\ trace' = Append(trace, Draw(idx, FALSE, 0, 0, <<>>))
  /\ guard' = guard - 1
  /\ UNCHANGED <<W, H, items, op, applied, intensity, lpc, fullFill, work,
                 attempt, leaves, out, prevTrace, prevItems, nRuns, runsLeft>>
  /\ UNCHANGED growVars
  /\ UNCHANGED comboVars
  /\ UNCHANGED netVars

\* the orientations the coin and the two overrides can give
cutOrientations(vr, hr) ==
  IF vr.ok /\ hr.ok THEN BOOLEAN ELSE IF vr.ok THEN {TRUE} ELSE {FALSE}

\* the picked region is cut in two
BspSplit ==
  /\ lpc = "main" /\ LoopOn(regions, guard)
  /\ \E idx \in pickRegionIndex(regions, intensity) :
       LET r  == regions[idx]
           vr == vRange(r.w, r.h, MINC)
           hr == hRange(r.w, r.h, MINC)
       IN  /\ vr.ok \/ hr.ok
           /\ \E tryV \in cutOrientations(vr, hr), k \in 1..(r.n - 1) :
                LET rg   == IF tryV THEN vr ELSE hr
                    side == IF tryV THEN r.w ELSE r.h
                IN  \E raw \in roundedCuts(side, k, r.n, intensity) :
                      LET s1 == clamp(raw, rg.lo, rg.hi)
                          ch == splitChildren(r, tryV, k, s1, debt)
                      IN  /\ regions' = InsertTwo(regions, idx, ch[1], ch[2])
                          /\ trace' = Append(trace, Draw(idx, tryV, k, s1, <<>>))
  /\ debt' = 0
  /\ guard' = guard - 1
  /\ UNCHANGED <<W, H, items, op, applied, intensity, lpc, fullFill, work,
                 attempt, leaves, out, prevTrace, prevItems, nRuns, runsLeft>>
  /\ UNCHANGED growVars
  /\ UNCHANGED comboVars
  /\ UNCHANGED netVars

\* the largest region that can still be cut; 0 when there is none
extraCand(regs, minc) ==
  LET S == { i \in 1..Len(regs) : Divisible(regs[i], minc) }
      area(i) == regs[i].w * regs[i].h
  IN  IF S = {} THEN 0
      ELSE CHOOSE i \in S :
             \A j \in S : area(j) < area(i) \/ (area(j) = area(i) /\ i <= j)

\* the main loop ends; leftover debt goes to the largest divisible region and
\* opens the second pass, otherwise bspTile returns the regions with n = 1
BspLoopExit ==
  /\ lpc = "main" /\ ~LoopOn(regions, guard)
  /\ guard' = IF \E i \in 1..Len(regions) : regions[i].n > 1 THEN guard - 1 ELSE guard
  /\ IF debt > 0 /\ extraCand(regions, MINC) # 0
     THEN /\ regions' = [regions EXCEPT ![extraCand(regions, MINC)].n = @ + debt]
          /\ debt' = 0
          /\ lpc' = "extra"
          /\ UNCHANGED leaves
     ELSE /\ leaves' = leavesOf(regions)
          /\ lpc' = "ret"
          /\ UNCHANGED <<regions, debt>>
  /\ UNCHANGED <<W, H, items, op, applied, intensity, fullFill, work, attempt,
                 out, trace, prevTrace, prevItems, nRuns, runsLeft>>
  /\ UNCHANGED growVars
  /\ UNCHANGED comboVars
  /\ UNCHANGED netVars

\* One iteration of the second pass (lines 1216-1245), and its end.  After the
\* main loop debt > 0 only when the root itself could not be cut, and then no
\* region is divisible: BspExtraPassNotEntered states that lpc is never
\* "extra", so these two are not disjuncts of NextBsp.
BspExtraStep ==
  /\ lpc = "extra"
  /\ \E i \in 1..Len(regions) : regions[i].n > 1
  /\ \E idx \in pickRegionIndex(regions, intensity) :
       LET r  == regions[idx]
           vr == vRange(r.w, r.h, MINC)
           hr == hRange(r.w, r.h, MINC)
       IN  IF ~vr.ok /\ ~hr.ok
           THEN /\ regions' = [regions EXCEPT ![idx].n = 1]
                /\ trace' = Append(trace, Draw(idx, FALSE, 0, 0, <<>>))
           ELSE \E tryV \in cutOrientations(vr, hr), k \in 1..(r.n - 1) :
                  LET rg   == IF tryV THEN vr ELSE hr
                      side == IF tryV THEN r.w ELSE r.h
                  IN  \E raw \in roundedCuts(side, k, r.n, intensity) :
                        LET s1 == clamp(raw, rg.lo, rg.hi)
                            ch == splitChildren(r, tryV, k, s1, 0)
                        IN  /\ regions' = InsertTwo(regions, idx, ch[1], ch[2])
                            /\ trace' = Append(trace, Draw(idx, tryV, k, s1, <<>>))
  /\ UNCHANGED <<W, H, items, op, applied, intensity, lpc, fullFill, work,
                 attempt, guard, debt, leaves, out, prevTrace, prevItems, nRuns, runsLeft>>
  /\ UNCHANGED growVars
  /\ UNCHANGED comboVars
  /\ UNCHANGED netVars

BspExtraExit ==
  /\ lpc = "extra"
  /\ ~ \E i \in 1..Len(regions) : regions[i].n > 1
  /\ leaves' = leavesOf(regions)
  /\ lpc' = "ret"
  /\ UNCHANGED <<W, H, items, op, applied, intensity, fullFill, work, attempt,
                 regions, guard, debt, out, trace, prevTrace, prevItems, nRuns, runsLeft>>
  /\ UNCHANGED growVars
  /\ UNCHANGED comboVars
  /\ UNCHANGED netVars

BspExtraPassNotEntered == lpc # "extra"

\* for (attempt = 0; attempt < 4; attempt++): the count did not match, go again
RetryAttempt ==
  /\ lpc = "ret" /\ attempt < 3 /\ Len(leaves) # Len(work)
  /\ attempt' = attempt + 1
  /\ lpc' = "begin"
  /\ UNCHANGED <<W, H, items, op, applied, intensity, fullFill, work, regions,
                 guard, debt, leaves, out, trace, prevTrace, prevItems, nRuns, runsLeft>>
  /\ UNCHANGED growVars
  /\ UNCHANGED comboVars
  /\ UNCHANGED netVars

\* the four attempts are used up: bspTile(count, W, H, t, 99)
LastChance ==
  /\ lpc = "ret" /\ attempt = 3 /\ Len(leaves) # Len(work)
  /\ attempt' = 99
  /\ lpc' = "begin"
  /\ UNCHANGED <<W, H, items, op, applied, intensity, fullFill, work, regions,
                 guard, debt, leaves, out, trace, prevTrace, prevItems, nRuns, runsLeft>>
  /\ UNCHANGED growVars
  /\ UNCHANGED comboVars
  /\ UNCHANGED netVars

\* lines 1282-1302: sort or shuffle the items, hand out the leaves, return
LayoutAssign ==
  /\ lpc = "ret" /\ (Len(leaves) = Len(work) \/ attempt = 99)
  /\ IF Len(leaves) = 0
     THEN lpc' = "threw" /\ UNCHANGED <<out, trace>>
     ELSE /\ lpc' = "laid"
          /\ \E withNat \in IF intensity < 20
                            THEN { sortByRatio([i \in 1..Len(work) |-> getAspect(work[i])]) }
                            ELSE Perms(Len(work)) :
               /\ out' = assignLeaves(work, leaves, withNat)
               /\ trace' = IF intensity < 20 THEN trace
                           ELSE Append(trace, Draw(0, FALSE, 0, 0, withNat))
  /\ UNCHANGED <<W, H, items, op, applied, intensity, fullFill, work, attempt,
                 regions, guard, debt, leaves, prevTrace, prevItems, nRuns, runsLeft>>
  /\ UNCHANGED growVars
  /\ UNCHANGED comboVars
  /\ UNCHANGED netVars

\* reflowMoodboard: the first layout overlaps, lay out again with fullFill
ReflowRedo ==
  /\ lpc = "laid" /\ op.name = "reflow" /\ ~exactAllocThrows(W, H)
  /\ ~fullFill /\ hasOverlapExact(out, W, H)
  /\ fullFill' = TRUE
  /\ lpc' = "layout"
  /\ UNCHANGED <<W, H, items, op, applied, intensity, work, attempt, regions,
                 guard, debt, leaves, out, trace, prevTrace, prevItems, nRuns, runsLeft>>
  /\ UNCHANGED growVars
  /\ UNCHANGED comboVars
  /\ UNCHANGED netVars

\* reflowMoodboard returns and the caller commits the list
ReflowReturn ==
  /\ lpc = "laid" /\ op.name = "reflow" /\ ~exactAllocThrows(W, H)
  /\ (fullFill \/ ~hasOverlapExact(out, W, H))
  /\ items' = out
  /\ fullFill' = FALSE
  /\ lpc' = "idle"
  /\ nRuns' = nRuns + 1
  /\ UNCHANGED <<W, H, op, applied, intensity, work, attempt, regions, guard,
                 debt, leaves, out, trace, prevTrace, prevItems, runsLeft>>
  /\ UNCHANGED growVars
  /\ UNCHANGED comboVars
  /\ UNCHANGED netVars

\* reflowMoodboard: hasOverlapExact cannot allocate its bitmap and the
\* exception leaves reflowMoodboard, which has no handler
ReflowThrow ==
  /\ lpc = "laid" /\ op.name = "reflow" /\ exactAllocThrows(W, H)
  /\ lpc' = "threw"
  /\ UNCHANGED <<W, H, items, op, applied, intensity, fullFill, work, attempt,
                 regions, guard, debt, leaves, out, trace, prevTrace, prevItems,
                 nRuns, runsLeft>>
  /\ UNCHANGED growVars
  /\ UNCHANGED comboVars
  /\ UNCHANGED netVars

\* shuffleMoodboard(prev, W, H, intensity) is called on the current list
ShuffleCall ==
  /\ lpc = "idle" /\ runsLeft > 0
  /\ runsLeft' = runsLeft - 1
  /\ op' = [name |-> "shuffle", pass |-> 1, tried |-> << >>]
  /\ prevItems' = items
  /\ prevTrace' = trace
  /\ trace' = <<>>
  /\ fullFill' = TRUE
  /\ lpc' = "layout"
  /\ UNCHANGED <<W, H, items, applied, intensity, work, attempt, regions, guard,
                 debt, leaves, out, nRuns>>
  /\ UNCHANGED growVars
  /\ UNCHANGED comboVars
  /\ UNCHANGED netVars

\* lines 1335-1343: the answer of the retry chain
shuffleRetryChain(retry, retry2, w, h) ==
  IF ~hasOverlapExact(retry, w, h) THEN retry
  ELSE IF ~hasOverlapExact(retry2, w, h) THEN retry2
  ELSE retry

\* shuffleMoodboard returns `ret` and the caller commits it
ShuffleCommit(ret, cands) ==
  /\ items' = ret
  /\ op' = [op EXCEPT !.tried = cands]
  /\ fullFill' = FALSE
  /\ lpc' = "idle"
  /\ nRuns' = nRuns + 1
  /\ UNCHANGED <<W, H, applied, intensity, work, attempt, regions, guard, debt,
                 leaves, out, trace, prevTrace, prevItems, runsLeft>>
  /\ UNCHANGED growVars
  /\ UNCHANGED comboVars
  /\ UNCHANGED netVars

\* an exception inside the try block
ShuffleRaise ==
  /\ lpc' = "threw"
  /\ UNCHANGED <<W, H, items, op, applied, intensity, fullFill, work, attempt,
                 regions, guard, debt, leaves, out, trace, prevTrace, prevItems,
                 nRuns, runsLeft>>
  /\ UNCHANGED growVars
  /\ UNCHANGED comboVars
  /\ UNCHANGED netVars

\* lines 1328-1345 after the first layout: stretch, check, return it or lay
\* out once more
ShuffleStretch ==
  /\ lpc = "laid" /\ op.name = "shuffle" /\ op.pass = 1
  /\ IF stretchThrows(out, W, H) \/ exactAllocThrows(W, H)
     THEN ShuffleRaise
     ELSE LET laid == stretchToCanvasEdges(out, W, H)
          IN  IF hasOverlapExact(laid, W, H)
              THEN /\ op' = [op EXCEPT !.pass = 2, !.tried = << laid >>]
                   /\ lpc' = "layout"
                   /\ UNCHANGED <<W, H, items, applied, intensity, fullFill,
                                  work, attempt, regions, guard, debt, leaves,
                                  out, trace, prevTrace, prevItems, nRuns, runsLeft>>
                   /\ UNCHANGED growVars
                   /\ UNCHANGED comboVars
                   /\ UNCHANGED netVars
              ELSE ShuffleCommit(laid, << laid >>)

\* lines 1335-1343 after the second layout
ShuffleRetry ==
  /\ lpc = "laid" /\ op.name = "shuffle" /\ op.pass = 2
  /\ IF exactAllocThrows(W, H)
        \/ (hasOverlapExact(out, W, H) /\ stretchThrows(out, W, H))
     THEN ShuffleRaise
     ELSE IF ~hasOverlapExact(out, W, H)
     THEN ShuffleCommit(out, op.tried \o << out >>)
     ELSE LET retry2 == stretchToCanvasEdges(out, W, H)
          IN  ShuffleCommit(shuffleRetryChain(out, retry2, W, H),
                            op.tried \o << out, retry2 >>)

\* catch (e): the input list is returned
ShuffleCatch ==
  /\ lpc = "threw" /\ op.name = "shuffle"
  /\ items' = prevItems
  /\ op' = [op EXCEPT !.pass = 0]
  /\ fullFill' = FALSE
  /\ lpc' = "idle"
  /\ nRuns' = nRuns + 1
  /\ UNCHANGED <<W, H, applied, intensity, work, attempt, regions, guard, debt,
                 leaves, out, trace, prevTrace, prevItems, runsLeft>>
  /\ UNCHANGED growVars
  /\ UNCHANGED comboVars
  /\ UNCHANGED netVars

BspCanvases == { [W |-> 8, H |-> 8], [W |-> 8, H |-> 5], [W |-> 8, H |-> 4] }

TileCounts == {1, 2, 3}

\* the board of Scenario "BspTiler(N=4, W=8, H=8, t=0, attempt=0)"
TileScenario == [W |-> 8, H |-> 8, n |-> 4]

\* a canvas large enough for a minimum leaf side above 2
LargeBoard == [W |-> 20, H |-> 20, n |-> 2]

Boards ==
  { [W |-> c.W, H |-> c.H, n |-> n] : c \in BspCanvases, n \in TileCounts }
    \cup { TileScenario, LargeBoard }

Spots == << <<0, 0>>, <<3, 0>>, <<0, 3>>, <<3, 3>> >>

\* which item is a site (the first or none) and which has a known, tall
\* natural size (item `tall` or none)
Profiles ==
  { [site |-> FALSE, tall |-> 0], [site |-> FALSE, tall |-> 2],
    [site |-> TRUE, tall |-> 0] }

\* n one-cell items two cells apart
BoardList(n, pr) ==
  [i \in 1..n |->
     [Item(Ids[i], IF pr.site /\ i = 1 THEN "site" ELSE "image",
           Spots[i][1], Spots[i][2], 1, 1)
        EXCEPT !.natW = IF i = pr.tall THEN 1 ELSE 0,
               !.natH = IF i = pr.tall THEN 3 ELSE 0]]

InitBoard ==
  /\ \E b \in Boards, pr \in Profiles :
       W = b.W /\ H = b.H /\ items = BoardList(b.n, pr)
  /\ op = NoOp
  /\ applied = 0
  /\ GrowIdle
  /\ ComboIdle
  /\ NetIdle
  /\ LayFresh

NextBsp ==
  \/ ReflowCall
  \/ LayoutBegin
  \/ BspBegin
  \/ BspFreeze
  \/ BspSplit
  \/ BspLoopExit
  \/ RetryAttempt
  \/ LastChance
  \/ LayoutAssign
  \/ ReflowRedo
  \/ ReflowReturn

\* canvases with a side that is not positive
DegenerateCanvases ==
  { [W |-> 0, H |-> 4], [W |-> 4, H |-> 0], [W |-> -1, H |-> 4],
    [W |-> 4, H |-> -1], [W |-> -2, H |-> -2], [W |-> 0, H |-> -2] }

ShuffleCanvases == { [W |-> 8, H |-> 8], [W |-> 8, H |-> 4] }

ShuffleBoards ==
  { [W |-> c.W, H |-> c.H, n |-> n] :
      c \in ShuffleCanvases \cup DegenerateCanvases, n \in TileCounts }

\* one reflow or one shuffle, on a usual or a degenerate canvas
InitShuffle ==
  /\ \E b \in ShuffleBoards, pr \in Profiles :
       W = b.W /\ H = b.H /\ items = BoardList(b.n, pr)
  /\ op = NoOp
  /\ applied = 0
  /\ GrowIdle
  /\ ComboIdle
  /\ NetIdle
  /\ LayFresh
  /\ intensity \in {0, 100} /\ runsLeft = 1

NextShuffle ==
  \/ NextBsp
  \/ ReflowThrow
  \/ ShuffleCall
  \/ ShuffleStretch
  \/ ShuffleRetry
  \/ ShuffleCatch

SpecShuffle == InitShuffle /\ [][NextShuffle]_vars

\* one reflow at the lowest or the highest intensity
InitBsp == InitBoard /\ intensity \in {0, 100} /\ runsLeft = 1

SpecBsp == InitBsp /\ [][NextBsp]_vars

\* consecutive reflows at intensity 0
InitRelayout == InitBoard /\ intensity = 0 /\ runsLeft = MaxRuns

SpecRelayout == InitRelayout /\ [][NextBsp]_vars

----------------------------------------------------------------------------
(* Properties of the tiler and of relayout *)

\* the same items with the same gx, gy, gw, gh
SameGeometry(A, B) ==
  /\ Len(A) = Len(B)
  /\ \A i \in 1..Len(A) : \E j \in 1..Len(B) :
       /\ A[i].id = B[j].id
       /\ A[i].gx = B[j].gx /\ A[i].gy = B[j].gy
       /\ A[i].gw = B[j].gw /\ A[i].gh = B[j].gh

\* w/h lies in [R_MIN, R_MAX] = [9/16, 16/9]
InEnvelope(r) == 9 * r.h <= 16 * r.w /\ 9 * r.w <= 16 * r.h

\* C18: every leaf returned by bspTile has aspect ratio w/h within the
\* envelope [9/16, 16/9], for every N >= 1 and every canvas W x H.
C18_LeavesInEnvelope ==
  lpc = "ret" => \A i \in 1..Len(leaves) : InEnvelope(leaves[i])

\* the same for the leaves that a cut produced
C18_CutLeavesInEnvelope ==
  lpc = "ret" =>
    \A i \in 1..Len(leaves) : leaves[i].depth > 0 => InEnvelope(leaves[i])

\* a step of the main loop that froze the picked region
FreezeStep ==
  lpc = "main" /\ lpc' = "main" /\ guard' = guard - 1 /\ Len(regions') = Len(regions)

\* C19: when a region with count > 1 has no feasible split range in either
\* orientation it is frozen as a 1-item leaf and its surplus is attached only
\* to another region that is divisible, never to an indivisible one.
C19_SurplusOnlyToDivisible ==
  [][ FreezeStep =>
        \A j \in 1..Len(regions) :
          regions'[j].n > regions[j].n => Divisible(regions[j], MINC) ]_vars

\* the frozen region itself is left with one item
C19_FrozenKeepsOne ==
  [][ FreezeStep =>
        \A j \in 1..Len(regions) :
          regions'[j].n < regions[j].n => regions'[j].n = 1 ]_vars

RECURSIVE CountSum(_)
CountSum(regs) ==
  IF regs = <<>> THEN 0 ELSE Head(regs).n + CountSum(Tail(regs))

\* C20: no item count is ever lost during tiling: in every state of bspTile
\* the sum of all regions' counts plus the outstanding debt equals the
\* requested count N.
C20_CountsPlusDebtIsN ==
  lpc \in {"main", "extra", "ret"} =>
    CountSum(regions) + debt = Max2(1, Len(work))

\* surplus of a frozen region sits on another region
C20_Witness ==
  /\ lpc = "main" /\ Len(regions) = 2 /\ Len(work) = 3
  /\ \E i, j \in 1..2 :
       /\ regions[i].n = 2 /\ regions[j].n = 1
       /\ ~Divisible(regions[j], MINC)
  /\ guard <= MaxGuard - 2
  /\ CountSum(regions) + debt = 3

\* the uncut root was frozen and its surplus stays as debt
C20_WitnessDebt ==
  lpc = "ret" /\ debt > 0 /\ CountSum(regions) + debt = Len(work)

\* C21: when the 4 regular attempts do not produce N leaves, the final attempt
\* (attempt 99) runs the tiler with the minimum leaf side forced to 2, for
\* every W, H, N and intensity.
C21_LastChanceMinSideIs2 ==
  (attempt = 99 /\ lpc \in {"main", "ret"}) => MINC = 2

\* what the code gives: retryK(99) = max(0.35, 1 - 0.22*99) = 0.35 = retryK(3),
\* so the final attempt uses the minimum of the fourth regular attempt
C21_LastChanceAsFourthAttempt ==
  (attempt = 99 /\ lpc \in {"main", "ret"}) =>
    MINC = computeMinSideCells(W, H, Len(work), intensity, 3)

IdsOf(its) == { its[i].id : i \in 1..Len(its) }

\* B holds every id of A exactly once and no other id
SameIds(A, B) ==
  /\ Len(A) = Len(B)
  /\ IdsOf(A) = IdsOf(B)
  /\ Cardinality(IdsOf(B)) = Len(B)

\* reflowMoodboard or shuffleMoodboard has returned
Returned(name) == lpc = "idle" /\ nRuns >= 1 /\ op.name = name

\* C13: relayout (reflowMoodboard) and shuffle (shuffleMoodboard) return a list
\* that contains every id of the input list exactly once and no other id,
\* whatever the kinds of the input items.
C13_IdsPreserved ==
  (Returned("reflow") \/ Returned("shuffle")) => SameIds(prevItems, items)

\* the same with lists of images and videos only
C13_MediaIdsPreserved ==
  ((Returned("reflow") \/ Returned("shuffle"))
     /\ \A i \in 1..Len(prevItems) : IsMedia(prevItems[i]))
  => SameIds(prevItems, items)

\* C14: when W or H is non-positive, relayout and shuffle act as a
\* pass-through: they return without throwing, and the returned list has the
\* same items with unchanged gx, gy, gw, gh.
C14_DegeneratePassThrough ==
  (W <= 0 \/ H <= 0) =>
    /\ ~(lpc = "threw" /\ op.name = "reflow")
    /\ (Returned("reflow") \/ Returned("shuffle")) => SameGeometry(items, prevItems)

\* two items of the list share a cell of the canvas
SharesCell(its, w, h) ==
  \E i, j \in 1..Len(its) : i < j /\
    \E x \in 0..(w - 1), y \in 0..(h - 1) :
      /\ its[i].gx <= x /\ x < its[i].gx + its[i].gw
      /\ its[i].gy <= y /\ y < its[i].gy + its[i].gh
      /\ its[j].gx <= x /\ x < its[j].gx + its[j].gw
      /\ its[j].gy <= y /\ y < its[j].gy + its[j].gh

\* C15: shuffle returns a layout containing an exact cell overlap only if all
\* three candidates of its retry chain overlap (the first layout + stretch, a
\* fresh layout without stretch, and the stretch of that fresh layout), and
\* then the value returned is the fresh layout-only candidate.
C15_OverlapOnlyAfterThreeCandidates ==
  (Returned("shuffle") /\ SharesCell(items, W, H)) =>
    /\ Len(op.tried) = 3
    /\ \A c \in 1..3 : SharesCell(op.tried[c], W, H)
    /\ items = op.tried[2]

C15_Witness ==
  /\ Returned("shuffle") /\ SharesCell(items, W, H)
  /\ Len(op.tried) = 3 /\ items = op.tried[2]

\* the first candidate overlapped and the fresh layout did not
C15_WitnessRetryClean ==
  Returned("shuffle") /\ Len(op.tried) = 2 /\ ~SharesCell(items, W, H)


RECURSIVE RegionArea(_)
RegionArea(regs) ==
  IF regs = <<>> THEN 0 ELSE Head(regs).w * Head(regs).h + RegionArea(Tail(regs))

RegionsDisjoint(a, b) ==
  \/ a.x + a.w <= b.x \/ b.x + b.w <= a.x
  \/ a.y + a.h <= b.y \/ b.y + b.h <= a.y

\* regs exactly partition [0,w) x [0,h)
RegionsPartition(regs, w, h) ==
  /\ \A i \in 1..Len(regs) :
       /\ regs[i].w >= 1 /\ regs[i].h >= 1
       /\ regs[i].x >= 0 /\ regs[i].y >= 0
       /\ regs[i].x + regs[i].w <= w /\ regs[i].y + regs[i].h <= h
  /\ \A i, j \in 1..Len(regs) : i < j => RegionsDisjoint(regs[i], regs[j])
  /\ RegionArea(regs) = w * h

\* C2: at every point of bspTile's splitting (main loop and second debt pass)
\* the regions exactly partition the root: each has w >= 1 and h >= 1, they
\* are pairwise disjoint and their areas sum to W*H.
C2_RegionsPartitionRoot ==
  lpc \in {"main", "extra"} => RegionsPartition(regions, W, H)

\* the main loop after a vertical and a horizontal cut
C2_Witness ==
  /\ lpc = "main" /\ Len(regions) = 3
  /\ \E i, j \in 1..Len(regions) : regions[i].x > 0 /\ regions[j].y > 0

\* C3 as stated: for W, H >= 2*minLeafSide the tiler returns, within attempts
\* 0..3, exactly N leaves that partition the W x H root.
C3_NLeavesWithinFourAttempts ==
  ( /\ lpc = "ret" /\ attempt <= 3
    /\ (attempt = 3 \/ Len(leaves) = Len(work))
    /\ W >= 2 * computeMinSideCells(W, H, Len(work), intensity, 0)
    /\ H >= 2 * computeMinSideCells(W, H, Len(work), intensity, 0) )
  => (Len(leaves) = Len(work) /\ RegionsPartition(leaves, W, H))

\* C4: whenever bspTile returns as many leaves as were requested, the leaves
\* exactly tile the root rectangle and no region with count > 1 is left out.
C4_FullCountTilesRoot ==
  (lpc = "ret" /\ Len(leaves) = Len(work))
  => /\ RegionsPartition(leaves, W, H)
     /\ \A i \in 1..Len(regions) : regions[i].n = 1

\* three leaves were asked for and three came back
C4_Witness ==
  lpc = "ret" /\ Len(work) = 3 /\ Len(leaves) = 3

\* C5 as stated: bspTile(N=4, W=8, H=8, t=0, attempt=0) returns 4 leaves of
\* area 16 each that tile the 8x8 region.
C5_FourLeavesOfArea16 ==
  ( /\ lpc = "ret" /\ attempt = 0 /\ intensity = 0
    /\ W = TileScenario.W /\ H = TileScenario.H /\ Len(work) = TileScenario.n )
  => /\ Len(leaves) = 4
     /\ \A i \in 1..Len(leaves) : leaves[i].w * leaves[i].h = 16
     /\ RegionsPartition(leaves, W, H)

\* a second reflow at intensity 0 has just been committed
RelayoutTwice == lpc = "idle" /\ nRuns >= 2 /\ intensity = 0

\* C6 as stated: at intensity 0, for every resolution of the tiler's random
\* choices, relayout(relayout(L)) gives every item the geometry of relayout(L).
C6_Original == RelayoutTwice => SameGeometry(items, prevItems)

\* no draw of the record is a shuffle of the items
NoShuffle(tr) == \A i \in 1..Len(tr) : tr[i].a # 0

\* C6 amended: at intensity 0 relayout(relayout(L)) gives every item the
\* geometry of relayout(L) when the second application makes the same random
\* draws as the first and neither lays the items out again after a shuffle.
C6_SameDrawsSameLayout ==
  (RelayoutTwice /\ trace = prevTrace /\ NoShuffle(trace))
  => SameGeometry(items, prevItems)

\* both applications cut a region, drew alike, and at least two items were laid
C6_Witness ==
  /\ RelayoutTwice /\ trace = prevTrace /\ NoShuffle(trace)
  /\ SameGeometry(items, prevItems)
  /\ Len(items) >= 2
  /\ \E i \in 1..Len(trace) : trace[i].k >= 1

\* the boxes of the items as regions
BoxesOf(its) ==
  [i \in 1..Len(its) |-> Region(its[i].gx, its[i].gy, its[i].gw, its[i].gh, 1, 0)]

\* layoutMoodboard has returned a layout made from exactly N leaves
LaidFromNLeaves ==
  lpc = "laid" /\ Len(work) >= 1 /\ Len(leaves) = Len(work) /\ Len(out) = Len(work)

\* C22: when the tiler yields exactly N leaves for N items, the layout pairs
\* items and leaves one-to-one, so the output rectangles are pairwise disjoint
\* and exactly tile the W x H canvas.
C22_NLeavesTileCanvas ==
  LaidFromNLeaves =>
    /\ \A l \in 1..Len(leaves) :
         Cardinality({ j \in 1..Len(out) :
            /\ out[j].gx = leaves[l].x /\ out[j].gy = leaves[l].y
            /\ out[j].gw = leaves[l].w /\ out[j].gh = leaves[l].h }) = 1
    /\ RegionsPartition(BoxesOf(out), W, H)

C22_Witness ==
  /\ LaidFromNLeaves /\ Len(work) = 3
  /\ RegionsPartition(BoxesOf(out), W, H)
  /\ intensity = 100

----------------------------------------------------------------------------
(* Order of the sites around a centred anchor *)

\* sites of the anchor's size around the centred anchor
CentredSites ==
  /\ W = ScenarioCentred.W /\ H = ScenarioCentred.H
  /\ Len(items) >= 1 /\ items[1] = ScenarioCentred.items[1]
  /\ \A i \in 1..Len(items) :
       items[i].gw = ScenarioCentred.gw /\ items[i].gh = ScenarioCentred.gh

\* the ring an item of the anchor's size sits on: its distance from the
\* anchor in steps of anchor size + 2*GUTTER, less one
RingOf(anchor, it) ==
  Max2(Abs(it.gx - anchor.gx) \div (anchor.gw + 2 * GUTTER),
       Abs(it.gy - anchor.gy) \div (anchor.gh + 2 * GUTTER)) - 1

\* C23: with enough free space the k-th site placed after the centred first
\* one (k = 0, 1, ...) lands on ring k div 4 at side k mod 4 in the order
\* Right, Down, Left, Up.
C23_RingSideByCount ==
  CentredSites =>
    \A i \in 2..Len(items) :
      /\ RingOf(items[1], items[i]) = (i - 2) \div 4
      /\ sideIndexRDLU(items[1], items[i].gx, items[i].gy,
                       items[i].gw, items[i].gh) = (i - 2) % 4

\* what the code does with the second site: the corner above the first one
C23_SecondSiteAtCorner ==
  (CentredSites /\ Len(items) >= 3) =>
    /\ items[2].gx = 14 /\ items[2].gy = 8
    /\ items[3].gx = 14 /\ items[3].gy = 2

----------------------------------------------------------------------------
(* Single growth steps of stretch and collect *)

\* the box lies within the inclusive target bounds
InTarget(it, tgt) ==
  /\ tgt.minX <= it.gx /\ it.gx + it.gw - 1 <= tgt.maxX
  /\ tgt.minY <= it.gy /\ it.gy + it.gh - 1 <= tgt.maxY

\* C24: every one-cell growth step of stretch or collect leaves the grown item
\* inside the target bounds (the canvas for stretch, the tight bounding box of
\* the input for collect) and clear of every other item's rectangle expanded
\* by the 1-cell gutter.
C24_GrowthStepStaysClear ==
  [][ (gpc = "grow" /\ arr' # arr) =>
        \A i \in 1..Len(arr) :
          arr'[i] # arr[i] =>
            /\ arr'[i].gw * arr'[i].gh > arr[i].gw * arr[i].gh
            /\ InTarget(arr'[i], target)
            /\ target = IF op.name = "stretch"
                        THEN [minX |-> 0, minY |-> 0, maxX |-> W - 1, maxY |-> H - 1]
                        ELSE getBBoxTight(items)
            /\ \A j \in 1..Len(arr) : j # i => GutterApart(arr'[i], arr[j]) ]_vars

\* collect has grown an item of a two-item list up to the edge of the bounding box
C24_Witness ==
  /\ op.name = "collect" /\ gpc \in {"grow", "done"} /\ iter >= 1 /\ Len(arr) = 2
  /\ \E i \in 1..2 :
       /\ arr[i] # items[i]
       /\ arr[i].gx + arr[i].gw - 1 = target.maxX
       /\ items[i].gx + items[i].gw - 1 < target.maxX

----------------------------------------------------------------------------
(* Composite layout: the split of the items over 2 or 3 bands *)

\* lengths of the item lists handed to layoutMoodboardCombo
ComboLengths == 1..4

\* canvases of the composite layout runs
ComboCanvases == { [W |-> 8, H |-> 8] }

\* Math.random()*0.5 + 0.25 in twentieths: 0.25 .. 0.70
ComboDraws == 5..14

\* Math.round of the non-negative fraction a/b
roundFrac(a, b) == (2 * a + b) \div (2 * b)

\* the share loop: band i takes clamp(p*rest, 0.2, rest - 0.2*(blocks-1-i)) of
\* what is left, the last band takes the remainder; shares in 1/400, draws
\* in 1/20 (p*rest is then a whole number of 1/400)
RECURSIVE comboParts(_, _, _, _)
comboParts(nb, draws, i, rest) ==
  IF i > nb - 1 THEN <<rest>>
  ELSE LET p == clamp(draws[i], 4, 12)
           take == clamp((p * rest) \div 20, 80, rest - 80 * (nb - i))
       IN  <<take>> \o comboParts(nb, draws, i + 1, rest - take)

\* counts = parts.map(p => Math.max(1, Math.round(items.length * p)))
comboCounts(ps, n) == [k \in 1..Len(ps) |-> Max2(1, roundFrac(n * ps[k], 400))]

RECURSIVE SeqSum(_)
SeqSum(s) == IF s = <<>> THEN 0 ELSE s[1] + SeqSum(Tail(s))

InitCombo ==
  /\ \E c \in ComboCanvases : W = c.W /\ H = c.H
  /\ \E n \in ComboLengths :
       items = [i \in 1..n |-> Item(Ids[i], "image", 0, 0, 1, 1)]
  /\ op = NoOp
  /\ applied = 0
  /\ GrowIdle
  /\ NetIdle
  /\ intensity \in {0, 100} /\ LayIdle
  /\ cpc = "call" /\ blocks = 0 /\ parts = <<>> /\ counts = <<>>
  /\ diff = 0 /\ ci = 0

\* layoutMoodboardCombo up to the correction loop: the number of bands, their
\* shares, the rounded counts and their excess over items.length
\* (opts.fullFill = false: the list is not shuffled first)
ComboBegin ==
  /\ cpc = "call"
  /\ Len(items) > 0
  /\ \E nb \in {2, 3} :
     \E draws \in [1..(nb - 1) -> ComboDraws] :
       LET ps == comboParts(nb, draws, 1, 400)
           cs == comboCounts(ps, Len(items))
       IN  /\ blocks' = nb
           /\ parts' = ps
           /\ counts' = cs
           /\ diff' = SeqSum(cs) - Len(items)
  /\ ci' = 1
  /\ cpc' = "loop"
  /\ UNCHANGED <<W, H, items, op, applied>>
  /\ UNCHANGED growVars
  /\ UNCHANGED layVars
  /\ UNCHANGED netVars

\* one iteration of the for loop inside while (diff !== 0): lower a count
\* above 1 when there are too many, raise a count when there are too few;
\* after the last band the while condition is tested and the for loop restarts
ComboStep ==
  /\ cpc = "loop"
  /\ diff # 0
  /\ IF diff > 0 /\ counts[ci] > 1
       THEN counts' = [counts EXCEPT ![ci] = @ - 1] /\ diff' = diff - 1
       ELSE IF diff < 0
       THEN counts' = [counts EXCEPT ![ci] = @ + 1] /\ diff' = diff + 1
       ELSE UNCHANGED <<counts, diff>>
  /\ ci' = IF ci = Len(counts) \/ diff' = 0 THEN 1 ELSE ci + 1
  /\ UNCHANGED <<W, H, items, op, applied, cpc, blocks, parts>>
  /\ UNCHANGED growVars
  /\ UNCHANGED layVars
  /\ UNCHANGED netVars

\* diff === 0: the loop is left and the list is cut into the bands' batches
ComboExit ==
  /\ cpc = "loop"
  /\ diff = 0
  /\ cpc' = "bands"
  /\ UNCHANGED <<W, H, items, op, applied, blocks, parts, counts, diff, ci>>
  /\ UNCHANGED growVars
  /\ UNCHANGED layVars
  /\ UNCHANGED netVars

NextCombo == ComboBegin \/ ComboStep \/ ComboExit

SpecCombo == InitCombo /\ [][NextCombo]_vars

\* the loop is a plain sequential loop: it always takes its next step
SpecComboLive == SpecCombo /\ WF_vars(NextCombo)

\* C25: for every non-empty item list of length N, also with N below the
\* number of bands, the count-correction loop terminates with per-band counts
\* that are each >= 1 and sum to exactly N.
C25_LoopEndsWithCounts ==
  <>( /\ cpc = "bands"
      /\ \A k \in 1..Len(counts) : counts[k] >= 1
      /\ SeqSum(counts) = Len(items) )

\* what holds instead: the loop ends so whenever there are at least as many
\* items as bands
C25_EndsWhenEnoughItems ==
  (cpc = "loop" /\ Len(items) >= blocks)
    ~> ( /\ cpc = "bands"
         /\ \A k \in 1..Len(counts) : counts[k] >= 1
         /\ SeqSum(counts) = Len(items) )

\* with fewer items than bands every count is 1 and the excess never changes
C25_StuckBelowBands ==
  (cpc = "loop" /\ Len(items) < blocks) =>
    /\ \A k \in 1..Len(counts) : counts[k] = 1
    /\ diff = blocks - Len(items)

----------------------------------------------------------------------------
(* Queries against the inflated occupancy index *)

\* canvases of the occupancy queries
OccCanvases == { [W |-> 3, H |-> 3], [W |-> 4, H |-> 2] }

\* single items on and around a 3x3 or 4x2 canvas, off-canvas positions included
OccStrays ==
  { <<Item("a", "image", x, y, gw, gh)>> :
      x \in (-4)..4, y \in (-3)..3, gw \in 1..2, gh \in 1..2 }

\* buildOccPS(...).ps as the loops compute it: ps[y][x] = ps[y-1][x] + rowSum,
\* rowSum running over grid[y-1][0..x-1]
RECURSIVE psRowSum(_, _, _)
psRowSum(grid, x, y) ==
  IF x = 0 THEN 0
  ELSE psRowSum(grid, x - 1, y) + (IF <<x - 1, y - 1>> \in grid THEN 1 ELSE 0)

RECURSIVE psLoop(_, _, _)
psLoop(grid, x, y) ==
  IF y = 0 \/ x = 0 THEN 0
  ELSE psLoop(grid, x, y - 1) + psRowSum(grid, x, y)

\* rectHasOcc over the computed table
rectHasOccLoop(grid, x1, y1, x2, y2) ==
  (psLoop(grid, x2 + 1, y2 + 1) - psLoop(grid, x2 + 1, y1)
     - psLoop(grid, x1, y2 + 1) + psLoop(grid, x1, y1)) > 0

InitOcc ==
  /\ \E c \in OccCanvases : W = c.W /\ H = c.H
  /\ items \in OccStrays \cup ItemLists(2, 3, 2)
  /\ op = NoOp
  /\ applied = 0
  /\ GrowIdle
  /\ ComboIdle
  /\ NetIdle
  /\ intensity = 0 /\ LayIdle

\* buildOccPS(items, W, H) followed by one canPlacePS query
QueryOcc ==
  /\ op = NoOp
  /\ \E gx \in (-1)..W, gy \in (-1)..H, gw \in 1..2, gh \in 1..2 :
       op' = [name |-> "canPlacePS", gx |-> gx, gy |-> gy, gw |-> gw, gh |-> gh,
              ok |-> canPlacePS(gx, gy, gw, gh, OccGrid(items, W, H), W, H)]
  /\ UNCHANGED <<W, H, items, applied>>
  /\ UNCHANGED growVars
  /\ UNCHANGED comboVars
  /\ UNCHANGED netVars
  /\ UNCHANGED layVars

NextOcc == QueryOcc

SpecOcc == InitOcc /\ [][NextOcc]_vars

\* the cells of a rectangle
CellsOf(gx, gy, gw, gh) == { <<x, y>> : x \in gx..(gx + gw - 1), y \in gy..(gy + gh - 1) }

\* the cells of an item's bounding box expanded by one cell on every side
HaloOf(it) == CellsOf(it.gx - GUTTER, it.gy - GUTTER, it.gw + 2 * GUTTER, it.gh + 2 * GUTTER)

Queried == op.name = "canPlacePS"

\* the rectangle lies within the canvas and off every item's expanded box
FreeOfHalos ==
  /\ op.gx >= 0 /\ op.gy >= 0 /\ op.gx + op.gw <= W /\ op.gy + op.gh <= H
  /\ \A i \in 1..Len(items) :
       CellsOf(op.gx, op.gy, op.gw, op.gh) \cap HaloOf(items[i]) = {}

\* the inclusion-exclusion query and the computed table agree with a
\* cell-by-cell scan of the bitmap
QueryAgreesWithScan ==
  LET grid == OccGrid(items, W, H)
      x2 == op.gx + op.gw - 1
      y2 == op.gy + op.gh - 1
      hit == CellsOf(op.gx, op.gy, op.gw, op.gh) \cap grid # {}
  IN  (op.gx >= 0 /\ op.gy >= 0 /\ op.gx + op.gw <= W /\ op.gy + op.gh <= H) =>
        /\ rectHasOcc(grid, op.gx, op.gy, x2, y2) = hit
        /\ rectHasOccLoop(grid, op.gx, op.gy, x2, y2) = hit

\* C26: for every item list and every rectangle, canPlacePS over buildOccPS
\* answers true exactly when the rectangle lies within the canvas and none of
\* its cells lies inside any item's bounding box expanded by one cell; the
\* prefix-sum query agrees with a direct scan of the bitmap.
C26_CanPlaceIffFreeOfHalos ==
  Queried => /\ op.ok = FreeOfHalos
             /\ QueryAgreesWithScan

\* the part that holds for every list: query and scan agree
C26_QueryAgreesWithScan == Queried => QueryAgreesWithScan

\* every item's expanded box ends at column -1 or further right
NoFarLeftItem == \A i \in 1..Len(items) : items[i].gx + items[i].gw + GUTTER >= 0

\* for such lists the answer is the one the claim gives
C26_HoldsWithoutFarLeftItem == (Queried /\ NoFarLeftItem) => op.ok = FreeOfHalos

----------------------------------------------------------------------------
(* Edge drags on a tiled moodboard *)

\* canvases and numbers of tiles of the tiled boards
TileBoards ==
  { [W |-> 4, H |-> 2, n |-> 2], [W |-> 4, H |-> 2, n |-> 3],
    [W |-> 4, H |-> 2, n |-> 4], [W |-> 3, H |-> 3, n |-> 2],
    [W |-> 3, H |-> 3, n |-> 3] }

\* the item list covers the w x h canvas exactly: inside, disjoint, no cell free
ExactTiling(its, w, h) == RegionsPartition(BoxesOf(its), w, h)

\* the list runs row by row, left to right, by the items' origins
RowMajor(its) ==
  \A i \in 1..(Len(its) - 1) :
    \/ its[i].gy < its[i+1].gy
    \/ (its[i].gy = its[i+1].gy /\ its[i].gx < its[i+1].gx)

\* all tilings of a w x h canvas by n items, each listed once
Tilings(n, w, h) ==
  { l \in ItemLists(n, w, h) : RowMajor(l) /\ ExactTiling(l, w, h) }

\* requested deltas of the drags on tiled boards
TileDeltas == {-2, -1, 1, 2}

InitTile ==
  /\ \E c \in TileBoards :
       /\ W = c.W /\ H = c.H
       /\ items \in Tilings(c.n, c.W, c.H)
  /\ op = NoOp
  /\ applied = 0
  /\ GrowIdle
  /\ ComboIdle
  /\ NetIdle
  /\ intensity = 0 /\ LayIdle

\* onEdgeDrag(id, edge, delta): computeEdgeShift on the current list; the
\* returned list is committed when a delta was applied
DragEdge ==
  \E i \in 1..Len(items), edge \in Dirs, delta \in TileDeltas :
    LET res == computeEdgeShift(items, items[i].id, edge, delta, W, H) IN
    /\ items' = IF res.applied # 0 THEN res.next ELSE items
    /\ applied' = res.applied
    /\ op' = [name |-> "shiftEdge", id |-> items[i].id, edge |-> edge, delta |-> delta]
    /\ UNCHANGED <<W, H>>
    /\ UNCHANGED growVars
    /\ UNCHANGED comboVars
    /\ UNCHANGED netVars
    /\ UNCHANGED layVars

NextTile == DragEdge

SpecTile == InitTile /\ [][NextTile]_vars

\* C27: if the item list exactly tiles the W x H canvas, then after any
\* shiftEdge call, and hence after any sequence of them, it still exactly
\* tiles the canvas: no overlap and no uncovered cell is introduced.
C27_TilingPreserved == ExactTiling(items, W, H)

\* a drag has moved a line that another tile crosses
C27_Witness ==
  /\ op.name = "shiftEdge" /\ applied # 0 /\ Len(items) >= 3
  /\ \E i, j, k \in 1..Len(items) :
       /\ items[i].gx + items[i].gw = items[j].gx
       /\ items[k].gx < items[j].gx /\ items[j].gx < items[k].gx + items[k].gw

\* C28: if shiftEdge(items, id, edge, d) applies the non-zero delta d, then
\* shiftEdge on the result with the same id and edge and delta -d applies -d
\* and restores every item's original gx, gy, gw, gh.
C28_ShiftReversible ==
  [][ (op'.name = "shiftEdge" /\ applied' # 0 /\ applied' = op'.delta) =>
        LET back == computeEdgeShift(items', op'.id, op'.edge, -applied', W, H)
        IN  /\ back.applied = -applied'
            /\ SameGeometry(back.next, items) ]_vars

\* what holds: the reverse call applies -d (no item is left changed in size
\* or place along the other axis), but it may carry further items along
C28_ReverseApplies ==
  [][ (op'.name = "shiftEdge" /\ applied' # 0 /\ applied' = op'.delta) =>
        computeEdgeShift(items', op'.id, op'.edge, -applied', W, H).applied
          = -applied' ]_vars

----------------------------------------------------------------------------
(* Full repack on the styleboard: canvas resize and Collect *)

\* canvases of the repack runs
RepackCanvases == { [W |-> 5, H |-> 3], [W |-> 6, H |-> 5] }

\* repackLikeAuto: re-place the items one by one in list order, each against
\* the ones placed before it; an item without a position goes to spawnFor
RECURSIVE repackFrom(_, _, _, _, _)
repackFrom(prev, k, placed, w, h) ==
  IF k > Len(prev) THEN placed
  ELSE LET it    == prev[k]
           found == findPlacementSnakePacked(placed, it.gw, it.gh, w, h)
           pos   == IF found.ok THEN found ELSE spawnFor(it.gw, it.gh, w, h)
       IN  repackFrom(prev, k + 1,
                      Append(placed, [it EXCEPT !.gx = pos.gx, !.gy = pos.gy]), w, h)

repackLikeAuto(prev, w, h) == repackFrom(prev, 1, << >>, w, h)

InitRepack ==
  /\ \E c \in RepackCanvases : W = c.W /\ H = c.H
  /\ items = << >>
  /\ op = NoOp
  /\ applied = 0
  /\ GrowIdle
  /\ ComboIdle
  /\ board = "styleboard" /\ NetOff
  /\ intensity = 0 /\ LayIdle

\* addUrl on the styleboard, while no Collect runs
RepackAdd == gpc = "idle" /\ AddSnake

\* applyCanvasSize on the styleboard: with items on the board the canvas only
\* grows; the items are repacked against the new size
ResizeRepack ==
  /\ gpc = "idle"
  /\ board = "styleboard"
  /\ \E c \in RepackCanvases :
       /\ ~(Len(items) > 0 /\ (c.W < W \/ c.H < H))
       /\ W' = c.W /\ H' = c.H
       /\ items' = repackLikeAuto(items, c.W, c.H)
  /\ op' = [name |-> "resize"]
  /\ UNCHANGED applied
  /\ UNCHANGED growVars
  /\ UNCHANGED comboVars
  /\ UNCHANGED netVars
  /\ UNCHANGED layVars

\* collectFill: repack, then enter collectCompute on the repacked list
CollectFill ==
  /\ gpc = "idle"
  /\ board = "styleboard"
  /\ Len(items) > 0
  /\ LET repacked == repackLikeAuto(items, W, H) IN
       /\ items' = repacked
       /\ arr' = repacked
       /\ target' = getBBoxTight(repacked)
       /\ order' = collectOrder(repacked)
       /\ maxIters' = GrowBudget(repacked, target')
  /\ op' = [name |-> "collect"]
  /\ changed' = FALSE /\ iter' = 0
  /\ dirIx' = 1 /\ idxs' = <<>> /\ ip' = 0
  /\ gpc' = "stage"
  /\ UNCHANGED <<W, H, applied>>
  /\ UNCHANGED layVars
  /\ UNCHANGED comboVars
  /\ UNCHANGED netVars

\* collectFill commits the collected list
FillCommit ==
  /\ gpc = "done"
  /\ items' = arr
  /\ op' = [name |-> "collected"]
  /\ gpc' = "idle" /\ arr' = <<>> /\ order' = <<>> /\ idxs' = <<>>
  /\ target' = [minX |-> 0, minY |-> 0, maxX |-> 0, maxY |-> 0]
  /\ changed' = FALSE /\ iter' = 0 /\ maxIters' = 0 /\ dirIx' = 0 /\ ip' = 0
  /\ UNCHANGED <<W, H, applied>>
  /\ UNCHANGED layVars
  /\ UNCHANGED comboVars
  /\ UNCHANGED netVars

NextRepack ==
  \/ RepackAdd
  \/ ResizeRepack
  \/ CollectFill
  \/ GrowStage
  \/ GrowStep
  \/ GrowNextItem
  \/ GrowNextStage
  \/ GrowNextPass
  \/ GrowReturn
  \/ FillCommit

SpecRepack == InitRepack /\ [][NextRepack]_vars

\* the list is the output of a repack: after a resize, and from the repack
\* of Collect until the collected list is committed
JustRepacked == op.name = "resize" \/ (op.name = "collect" /\ gpc # "idle")

\* C29: after a full repack every item lies within the canvas and any two
\* items are separated by at least one empty cell, even when some item finds
\* no free position during the repack.
C29_RepackedInBoundsAndApart ==
  JustRepacked =>
    /\ Settled(items, W, H)
    /\ \A i, j \in 1..Len(items) : i < j => GutterApart(items[i], items[j])

\* every item of the repack found a free position
AllFound(its, w, h) ==
  \A k \in 1..Len(its) :
    k = 1 \/ findPlacementSnakePacked(SubSeq(repackLikeAuto(its, w, h), 1, k - 1),
                                      its[k].gw, its[k].gh, w, h).ok

\* what holds: a repack in which every item found a free position
C29_HoldsWhenAllFound ==
  (JustRepacked /\ AllFound(items, W, H)) =>
    /\ Settled(items, W, H)
    /\ \A i, j \in 1..Len(items) : i < j => GutterApart(items[i], items[j])

----------------------------------------------------------------------------
(* Boards, local storage and the remote store *)

\* an item as the board keeps it, with its approval mark
StoredItem(id, gx) ==
  [id |-> id, kind |-> "image", gx |-> gx, gy |-> 0, gw |-> 1, gh |-> 1,
   natW |-> 0, natH |-> 0, approved |-> FALSE]

\* the ids of the items made on each board
BoardIds == [b \in BOARD_KEYS |-> IF b = "moodboard" THEN {"a", "b"} ELSE {"c", "d"}]

\* what each board holds, locally and remotely, when the application starts
StoredAtStart ==
  [b \in BOARD_KEYS |->
     IF b = "moodboard" THEN << StoredItem("a", 0) >>
                        ELSE << StoredItem("c", 0), StoredItem("d", 2) >>]

\* a remoteLoad call in flight; startup marks the one made on mount, whose
\* success switches the cloud on
LoadOf(b, startup) == [board |-> b, startup |-> startup]

\* the state after mount: moodboard shown from local storage, both loads of
\* the moodboard in flight, the password taken from the session if there
InitNet ==
  /\ W = 8 /\ H = 8
  /\ board = "moodboard"
  /\ local = StoredAtStart
  /\ remote = StoredAtStart
  /\ items = StoredAtStart["moodboard"]
  /\ remoteReady = FALSE
  /\ pass \in BOOLEAN
  /\ saveTimer = NoTimer
  /\ loads = { LoadOf("moodboard", TRUE), LoadOf("moodboard", FALSE) }
  /\ posted = {}
  /\ nSwitch = 0
  /\ op = NoOp
  /\ applied = 0
  /\ GrowIdle
  /\ ComboIdle
  /\ intensity = 0 /\ LayIdle

\* remoteSave(b, its, pass) as called by the save effect: without a password
\* nothing happens, else the pending timer is replaced
remoteSave(b, its, timer) == IF pass THEN [board |-> b, items |-> its] ELSE timer

\* the save effect of [board, items]: saveBoard, and remoteSave when the
\* cloud is on
SaveEffect(b, its, ready) ==
  /\ local' = [local EXCEPT ![b] = its]
  /\ saveTimer' = IF ready THEN remoteSave(b, its, saveTimer) ELSE saveTimer

\* setBoard(k) and the effects of that commit. Cloud off: the list is read
\* from local storage, the save effect first writes the old list under k and
\* after the re-render the loaded one. Cloud on: the list stays, and the save
\* effect runs with the new board and the list still shown. Either way a
\* remote load of k starts.
SwitchBoard ==
  /\ nSwitch < MaxSwitches
  /\ \E k \in BOARD_KEYS \ {board} :
       /\ board' = k
       /\ IF ~remoteReady
            THEN /\ items' = local[k]
                 /\ UNCHANGED <<local, saveTimer>>
            ELSE /\ UNCHANGED items
                 /\ SaveEffect(k, items, TRUE)
       /\ loads' = loads \cup { LoadOf(k, FALSE) }
       /\ op' = [name |-> "switch", to |-> k]
  /\ nSwitch' = nSwitch + 1
  /\ UNCHANGED <<W, H, applied, remoteReady, pass, remote, posted>>
  /\ UNCHANGED growVars
  /\ UNCHANGED comboVars
  /\ UNCHANGED layVars

\* a remoteLoad promise settles: with an array the list is replaced (and the
\* startup load switches the cloud on) and the save effect runs; with null
\* nothing happens
LoadSettles ==
  /\ \E l \in loads, isArray \in BOOLEAN :
       /\ loads' = loads \ {l}
       /\ IF isArray
            THEN /\ remoteReady' = (remoteReady \/ l.startup)
                 /\ items' = remote[l.board]
                 /\ SaveEffect(board, remote[l.board], remoteReady')
            ELSE UNCHANGED <<remoteReady, items, local, saveTimer>>
       /\ op' = [name |-> "loaded", board |-> l.board, isArray |-> isArray]
  /\ UNCHANGED <<W, H, applied, board, pass, remote, posted, nSwitch>>
  /\ UNCHANGED growVars
  /\ UNCHANGED comboVars
  /\ UNCHANGED layVars

\* onApprove(id): the mark of one item flips, and the save effect runs
Approve ==
  /\ \E i \in 1..Len(items) :
       /\ items' = [items EXCEPT ![i].approved = ~@]
       /\ SaveEffect(board, items', remoteReady)
       /\ op' = [name |-> "approve", id |-> items[i].id]
  /\ UNCHANGED <<W, H, applied, board, remoteReady, pass, remote, loads, posted, nSwitch>>
  /\ UNCHANGED growVars
  /\ UNCHANGED comboVars
  /\ UNCHANGED layVars

\* the 300 ms timer fires: the save request is sent with the board and the
\* list captured when remoteSave was called
TimerFires ==
  /\ saveTimer # NoTimer
  /\ posted' = posted \cup { saveTimer }
  /\ remote' = [remote EXCEPT ![saveTimer.board] = saveTimer.items]
  /\ saveTimer' = NoTimer
  /\ op' = [name |-> "post", board |-> saveTimer.board]
  /\ UNCHANGED <<W, H, items, applied, board, remoteReady, pass, local, loads, nSwitch>>
  /\ UNCHANGED growVars
  /\ UNCHANGED comboVars
  /\ UNCHANGED layVars

NextNet == SwitchBoard \/ LoadSettles \/ Approve \/ TimerFires

SpecNet == InitNet /\ [][NextNet]_vars

\* every item of the list was made on board b
BelongsTo(its, b) == \A i \in 1..Len(its) : its[i].id \in BoardIds[b]

\* C30: under every interleaving of a board switch, the completion of the
\* remote load for the new board and the firing of the debounced save timer,
\* a save request sent for board B carries only items that belong to board B.
C30_PostsCarryOwnItems == \A p \in posted : BelongsTo(p.items, p.board)

\* what holds while the cloud is off: nothing is posted at all
C30_NoPostWhileCloudOff == ~(remoteReady /\ pass) => (posted = {} /\ saveTimer = NoTimer)

\* what holds when the load of the shown board settles with an array before
\* the timer fires: the pending save is replaced by one of the loaded list
C30_LoadBeforeTimerReplaces ==
  [][ (op'.name = "loaded" /\ op'.isArray /\ op'.board = board /\ remoteReady' /\ pass) =>
        saveTimer' = [board |-> board, items |-> remote[board]] ]_vars

\* the cloud is on, the board was switched once, the timer fired while the
\* load of the new board was still in flight: the old board's list is posted
\* under the new key
C30_OldListPostedUnderNewKey ==
  /\ nSwitch = 1 /\ board = "styleboard"
  /\ loads = { LoadOf("styleboard", FALSE) }
  /\ [board |-> "styleboard", items |-> StoredAtStart["moodboard"]] \in posted

====
